---- MODULE Spec2Model ----
(***************************************************************************)
(* Model of whereami-web: CosmicMotionCalculator                           *)
(* (src/cosmic_calculator.py), SpaceTimePosition                           *)
(* (src/spacetime_position.py), LocationGeocoder (src/geocoding.py) and    *)
(* the request handlers of src/app.py.                                     *)
(*                                                                         *)
(* Numbers.  The program computes in IEEE-754 binary64.  The model keeps   *)
(* the structure of floating-point arithmetic (a signed mantissa, an       *)
(* exponent, one correctly rounded result per operation, round half to     *)
(* even) at a reduced precision of four decimal digits, so that every      *)
(* intermediate product fits TLC's 32-bit integers.  A float is the record *)
(* [m |-> mantissa, e |-> exponent] of value m * 10^e, with m = 0 (and     *)
(* e = 0) or 1000 <= |m| <= 9999.  Exponents are unbounded.                *)
(*                                                                         *)
(* Angles are geographic or celestial degrees in units of 1/10000 degree   *)
(* (39.1001 degrees is 391001).  Instants are [t |-> seconds, tz |-> zone] *)
(***************************************************************************)
EXTENDS Integers, Sequences, FiniteSets, TLC

VARIABLES
    now,        \* the wall clock read by datetime.now(pytz.UTC), in seconds
    obj,        \* obj[o]: the fields of SpaceTimePosition object o, or NoObject
    args,       \* args[o]: the arguments object o was constructed with
    result,     \* result[o]: what calculate_displacement last returned for o, or NoResult
    report,     \* report[o]: what generate_report computed for o, or None
    comparisons,\* comparisons[o]: what generate_spacecraft_comparisons returned for o's displacement, or None
    request,    \* request[o]: the JSON body of POST /api/calculate request o, or None
    response,   \* response[o]: what the handler answered to request o, or None
    geo         \* geo[o]: the calls and waits of LocationGeocoder for o and what it returned, or None

\* what the core (SpaceTimePosition and its calculator) works on
coreVars == <<obj, args, result>>

\* what the report, the handlers and the geocoder work on
outerVars == <<report, comparisons, request, response, geo>>

vars == <<now, obj, args, result, report, comparisons, request, response, geo>>

\* ------------------------------------------------------------------------
\* Floating-point arithmetic (numpy float64, at reduced precision)

\* Number of significant decimal digits kept by every operation.
Precision == 4

Pow10 == <<10, 100, 1000, 10000, 100000, 1000000, 10000000, 100000000, 1000000000>>

\* 10^n for 0 <= n <= 9
P10(n) == IF n = 0 THEN 1 ELSE Pow10[n]

Abs(n) == IF n < 0 THEN -n ELSE n

Sgn(n) == IF n < 0 THEN -1 ELSE IF n > 0 THEN 1 ELSE 0

\* number of decimal digits of n >= 1
RECURSIVE NumDigits(_)
NumDigits(n) == IF n < 10 THEN 1 ELSE 1 + NumDigits(n \div 10)

\* n / d for n >= 0, d > 0, rounded to the nearest integer, ties to even
RoundHalfEven(n, d) ==
    LET q == n \div d
        r == n % d
    IN  IF 2 * r > d \/ (2 * r = d /\ q % 2 = 1) THEN q + 1 ELSE q

F(m, e) == [m |-> m, e |-> e]

Zero == F(0, 0)

Float == [m : Int, e : Int]

\* the float nearest to the exact value m * 10^e
fl[m \in Int, e \in Int] ==
    IF m = 0 THEN Zero
    ELSE LET a == Abs(m)
             n == NumDigits(a)
         IN  IF n <= Precision
             THEN F(m * P10(Precision - n), e - (Precision - n))
             ELSE LET k == n - Precision
                      q == RoundHalfEven(a, P10(k))
                  IN  IF q = P10(Precision)
                      THEN F(Sgn(m) * P10(Precision - 1), e + k + 1)
                      ELSE F(Sgn(m) * q, e + k)

FNeg(a) == F(-a.m, a.e)

FMul[a \in Float, b \in Float] == fl[a.m * b.m, a.e + b.e]

\* a + b; an addend more than Precision + 1 digits below the other is absorbed
FAdd[a \in Float, b \in Float] ==
    IF a.m = 0 THEN b
    ELSE IF b.m = 0 THEN a
    ELSE LET hi == IF a.e >= b.e THEN a ELSE b
             lo == IF a.e >= b.e THEN b ELSE a
             d  == hi.e - lo.e
         IN  IF d > Precision + 1 THEN hi
             ELSE fl[hi.m * P10(d) + lo.m, lo.e]

\* a / b for b # 0, correctly rounded
FDiv[a \in Float, b \in Float] ==
    IF a.m = 0 THEN Zero
    ELSE LET k == IF Abs(a.m) >= Abs(b.m) THEN Precision - 1 ELSE Precision
             q == RoundHalfEven(Abs(a.m) * P10(k), Abs(b.m))
         IN  fl[Sgn(a.m) * Sgn(b.m) * q, a.e - b.e - k]

\* largest r in lo..hi-1 with r * r <= n, given lo * lo <= n < hi * hi
ISqrt[n \in Int, lo \in Int, hi \in Int] ==
    IF hi - lo <= 1 THEN lo
    ELSE LET mid == (lo + hi) \div 2
         IN  IF mid * mid <= n THEN ISqrt[n, mid, hi] ELSE ISqrt[n, lo, mid]

\* square root of a >= 0, correctly rounded
FSqrt[a \in Float] ==
    IF a.m = 0 THEN Zero
    ELSE LET k == IF a.e % 2 = 0 THEN Precision ELSE Precision - 1
             n == a.m * P10(k)
             r == ISqrt[n, P10(Precision - 1), P10(Precision)]
             q == IF n >= r * r + r + 1 THEN r + 1 ELSE r
         IN  fl[q, (a.e - k) \div 2]

\* a < b
FLess(a, b) == FAdd[a, FNeg(b)].m < 0

FAbs(a) == F(Abs(a.m), a.e)

\* float(n) for an integer n
IntToFloat[n \in Int] == fl[n, 0]

\* ------------------------------------------------------------------------
\* Vectors (numpy arrays of three floats)

Vec == Float \X Float \X Float

ZeroVec == <<Zero, Zero, Zero>>

VecAdd[u \in Vec, v \in Vec] == <<FAdd[u[1], v[1]], FAdd[u[2], v[2]], FAdd[u[3], v[3]]>>

VecScale[v \in Vec, s \in Float] == <<FMul[v[1], s], FMul[v[2], s], FMul[v[3], s]>>

ScalarTimesVec[s \in Float, v \in Vec] == <<FMul[s, v[1]], FMul[s, v[2]], FMul[s, v[3]]>>

\* np.linalg.norm
Norm[v \in Vec] == FSqrt[FAdd[FAdd[FMul[v[1], v[1]], FMul[v[2], v[2]]], FMul[v[3], v[3]]]]

\* ------------------------------------------------------------------------
\* np.cos(np.radians(x)) and np.sin(np.radians(x)) for the angles x (in
\* 1/10000 degree) that the program is run on: the binary64 results, rounded
\* to Precision digits.  cos of +-90 and of 270 degrees and sin of 180 degrees
\* are not zero, because np.radians(x) is not exactly a multiple of pi/2.
TrigTable ==
    0        :> [cos |-> F(1000, -3),  sin |-> F(0, 0)] @@         \* 0
    900000   :> [cos |-> F(6123, -20), sin |-> F(1000, -3)] @@     \* 90: cos 6.123233995736766e-17
    -900000  :> [cos |-> F(6123, -20), sin |-> F(-1000, -3)] @@    \* -90
    1800000  :> [cos |-> F(-1000, -3), sin |-> F(1225, -19)] @@    \* 180: sin 1.2246467991473532e-16
    2700000  :> [cos |-> F(-1837, -19), sin |-> F(-1000, -3)] @@   \* 270: cos -1.8369701987210297e-16
    300000   :> [cos |-> F(8660, -4),  sin |-> F(5000, -4)] @@     \* 30
    105000   :> [cos |-> F(9833, -4),  sin |-> F(1822, -4)] @@     \* 10.5
    412700   :> [cos |-> F(7516, -4),  sin |-> F(6596, -4)] @@     \* 41.27
    1867500  :> [cos |-> F(-9931, -4), sin |-> F(-1175, -4)] @@    \* 186.75
    127200   :> [cos |-> F(9755, -4),  sin |-> F(2202, -4)] @@     \* 12.72
    2200000  :> [cos |-> F(-7660, -4), sin |-> F(-6428, -4)] @@    \* 220
    -450000  :> [cos |-> F(7071, -4),  sin |-> F(-7071, -4)] @@    \* -45
    1679900  :> [cos |-> F(-9781, -4), sin |-> F(2081, -4)] @@     \* 167.99
    -69800   :> [cos |-> F(9926, -4),  sin |-> F(-1215, -4)] @@    \* -6.98
    391001   :> [cos |-> F(7760, -4),  sin |-> F(6307, -4)] @@     \* 39.1001
    -945781  :> [cos |-> F(-7982, -5), sin |-> F(-9968, -4)] @@    \* -94.5781
    400150   :> [cos |-> F(7659, -4),  sin |-> F(6430, -4)] @@     \* 40.0150
    -1052705 :> [cos |-> F(-2634, -4), sin |-> F(-9647, -4)] @@    \* -105.2705
    1000000  :> [cos |-> F(-1736, -4), sin |-> F(9848, -4)] @@     \* 100
    2000000  :> [cos |-> F(-9397, -4), sin |-> F(-3420, -4)]       \* 200

Cos(deg) == TrigTable[deg].cos

Sin(deg) == TrigTable[deg].sin

\* ------------------------------------------------------------------------
\* class CosmicMotionCalculator

EARTH_ROTATION_EQUATOR == F(4650, -4)       \* 0.465
EARTH_ORBITAL_VELOCITY == F(2978, -2)       \* 29.78
SOLAR_SYSTEM_LSR == F(2000, -2)             \* 20.0
SUN_GALACTIC_ORBIT == F(2300, -1)           \* 230.0
GALACTIC_PLANE_OSCILLATION == F(7000, -3)   \* 7.0
MW_LOCAL_GROUP == F(1000, -1)               \* 100.0
LOCAL_GROUP_VIRGO == F(6000, -1)            \* 600.0
\* mutant: the Great Attractor flow a tenth of its value
GREAT_ATTRACTOR_Tenth == F(6000, -2)

GREAT_ATTRACTOR == F(6000, -1)              \* 600.0
\* mutant: the CMB dipole speed mistyped
CMB_DIPOLE_VELOCITY_Mistyped == F(3960, -1)

CMB_DIPOLE_VELOCITY == F(3690, -1)          \* 369.0
CMB_DIPOLE_RA == 1679900                    \* 167.99 degrees
CMB_DIPOLE_DEC == -69800                    \* -6.98 degrees

\* CosmicMotionCalculator.__init__: the only field is the CMB dipole direction
NewCalculator == [cmb_direction |-> [ra |-> CMB_DIPOLE_RA, dec |-> CMB_DIPOLE_DEC]]

\* mutant: latitude and longitude exchanged
earth_rotation_velocity_LatLonSwapped(latitude, longitude, time) ==
    LET v_mag  == FMul[EARTH_ROTATION_EQUATOR, Cos(longitude)]
        v_east == v_mag
    IN  << FMul[FNeg(v_east), Sin(latitude)],
           FMul[v_east, Cos(latitude)],
           Zero >>

\* mutant: sine and cosine of the longitude exchanged
earth_rotation_velocity_SinCosSwapped(latitude, longitude, time) ==
    LET v_mag  == FMul[EARTH_ROTATION_EQUATOR, Cos(latitude)]
        v_east == v_mag
    IN  << FMul[FNeg(v_east), Cos(longitude)],
           FMul[v_east, Sin(longitude)],
           Zero >>

earth_rotation_velocity(latitude, longitude, time) ==
    LET v_mag  == FMul[EARTH_ROTATION_EQUATOR, Cos(latitude)]
        v_east == v_mag
    IN  << FMul[FNeg(v_east), Sin(longitude)],
           FMul[v_east, Cos(longitude)],
           Zero >>

\* mutant: the direction of the orbital motion turns with the date
earth_orbital_velocity_Seasonal(time) ==
    IF time >= 172800
    THEN <<Zero, FNeg(EARTH_ORBITAL_VELOCITY), Zero>>
    ELSE <<Zero, EARTH_ORBITAL_VELOCITY, Zero>>

earth_orbital_velocity(time) == <<Zero, EARTH_ORBITAL_VELOCITY, Zero>>

solar_system_velocity ==
    LET apex_ra  == 2700000
        apex_dec == 300000
    IN  ScalarTimesVec[SOLAR_SYSTEM_LSR,
            << FMul[Cos(apex_dec), Cos(apex_ra)],
               FMul[Cos(apex_dec), Sin(apex_ra)],
               Sin(apex_dec) >>]

galactic_rotation_velocity == <<Zero, SUN_GALACTIC_ORBIT, Zero>>

galactic_plane_oscillation_velocity(time) == <<Zero, Zero, GALACTIC_PLANE_OSCILLATION>>

local_group_velocity ==
    LET m31_ra  == 105000
        m31_dec == 412700
    IN  ScalarTimesVec[MW_LOCAL_GROUP,
            << FMul[Cos(m31_dec), Cos(m31_ra)],
               FMul[Cos(m31_dec), Sin(m31_ra)],
               Sin(m31_dec) >>]

virgo_cluster_velocity ==
    LET virgo_ra  == 1867500
        virgo_dec == 127200
    IN  ScalarTimesVec[LOCAL_GROUP_VIRGO,
            << FMul[Cos(virgo_dec), Cos(virgo_ra)],
               FMul[Cos(virgo_dec), Sin(virgo_ra)],
               Sin(virgo_dec) >>]

great_attractor_velocity ==
    LET ga_ra  == 2200000
        ga_dec == -450000
    IN  ScalarTimesVec[GREAT_ATTRACTOR,
            << FMul[Cos(ga_dec), Cos(ga_ra)],
               FMul[Cos(ga_dec), Sin(ga_ra)],
               Sin(ga_dec) >>]

cmb_rest_frame_velocity ==
    LET ra_rad  == CMB_DIPOLE_RA
        dec_rad == CMB_DIPOLE_DEC
    IN  ScalarTimesVec[CMB_DIPOLE_VELOCITY,
            << FMul[Cos(dec_rad), Cos(ra_rad)],
               FMul[Cos(dec_rad), Sin(ra_rad)],
               Sin(dec_rad) >>]

\* mutant: the loop runs before the last entry is in the dictionary
ComponentKeysWithoutLast ==
    << "earth_rotation", "earth_orbit", "solar_system_lsr", "galactic_rotation",
       "galactic_oscillation", "local_group", "virgo_motion", "great_attractor" >>

\* the keys of the dictionary built by calculate_total_velocity, in insertion
\* order (the order velocities.values() is iterated in)
ComponentKeys ==
    << "earth_rotation", "earth_orbit", "solar_system_lsr", "galactic_rotation",
       "galactic_oscillation", "local_group", "virgo_motion", "great_attractor",
       "cmb_frame" >>

\* mutant: the Earth-orbit entry filled by a copy of the Earth-rotation call
ComponentDict_OrbitFromLocation(latitude, longitude, time) ==
    [ earth_rotation       |-> earth_rotation_velocity(latitude, longitude, time),
      earth_orbit          |-> earth_rotation_velocity(latitude, longitude, time),
      solar_system_lsr     |-> solar_system_velocity,
      galactic_rotation    |-> galactic_rotation_velocity,
      galactic_oscillation |-> galactic_plane_oscillation_velocity(time),
      local_group          |-> local_group_velocity,
      virgo_motion         |-> virgo_cluster_velocity,
      great_attractor      |-> great_attractor_velocity,
      cmb_frame            |-> cmb_rest_frame_velocity ]

\* the dictionary literal of calculate_total_velocity
ComponentDict(latitude, longitude, time) ==
    [ earth_rotation       |-> earth_rotation_velocity(latitude, longitude, time),
      earth_orbit          |-> earth_orbital_velocity(time),
      solar_system_lsr     |-> solar_system_velocity,
      galactic_rotation    |-> galactic_rotation_velocity,
      galactic_oscillation |-> galactic_plane_oscillation_velocity(time),
      local_group          |-> local_group_velocity,
      virgo_motion         |-> virgo_cluster_velocity,
      great_attractor      |-> great_attractor_velocity,
      cmb_frame            |-> cmb_rest_frame_velocity ]

\* total = np.zeros(3); for v in velocities.values(): total += v
RECURSIVE SumValues(_, _, _)
SumValues(d, keys, total) ==
    IF keys = <<>> THEN total
    ELSE SumValues(d, Tail(keys), VecAdd[total, d[Head(keys)]])

\* Each name of the Python body is bound once, by passing it on as a parameter.
calculate_total_velocity(latitude, longitude, time) ==
    LET Return(velocities, total) ==
            velocities @@ [total |-> total, total_magnitude |-> Norm[total]]
        Sum(velocities) ==
            Return(velocities, SumValues(velocities, ComponentKeys, ZeroVec))
    IN  Sum(ComponentDict(latitude, longitude, time))

\* mutant: the length of the interval is used, its sign dropped
calculate_position_change_AbsInterval(velocities, time_delta_seconds) ==
    LET total_velocity == velocities.total
    IN  VecScale[total_velocity, FAbs(time_delta_seconds)]

\* mutant: the CMB dipole vector alone is extrapolated
calculate_position_change_DipoleOnly(velocities, time_delta_seconds) ==
    LET total_velocity == velocities.cmb_frame
    IN  VecScale[total_velocity, time_delta_seconds]

calculate_position_change(velocities, time_delta_seconds) ==
    LET total_velocity == velocities.total
    IN  VecScale[total_velocity, time_delta_seconds]

\* ------------------------------------------------------------------------
\* class SpaceTimePosition

\* Python's None; also the value of a name not yet bound
None == <<>>

\* v is None, for a v of any type
IsNone(v) == ToString(v) = ToString(None)

NoObject == None

NoResult == None

\* (latitude, longitude, address_string) tuples the callers pass
NorthPole  == <<900000, 0, "North Pole">>
SouthPole  == <<-900000, 1800000, "South Pole">>
Equator    == <<0, 900000, "Equator 90E">>
KansasCity == <<391001, -945781, "Kansas City">>
Boulder    == <<400150, -1052705, "Boulder">>

\* triples no place on Earth has: a latitude of 100 degrees, a longitude of
\* 200 degrees
BeyondPole   == <<1000000, 0, "Latitude 100">>
PastDateLine == <<0, 2000000, "Longitude 200">>

BirthLocations == {NorthPole, SouthPole, KansasCity, BeyondPole}

CurrentLocations == {NorthPole, Equator, Boulder, PastDateLine}

\* LocationGeocoder.validate_coordinates; no code of the program calls it
validate_coordinates(latitude, longitude) ==
    IF IsNone(latitude) \/ IsNone(longitude) THEN FALSE
    ELSE IF ~(-900000 <= latitude /\ latitude <= 900000) THEN FALSE
    ELSE IF ~(-1800000 <= longitude /\ longitude <= 1800000) THEN FALSE
    ELSE TRUE

\* timezone-aware datetimes the callers pass: t is the instant in seconds,
\* tz the zone it is expressed in
BirthInstants ==
    { [t |-> 86400,  tz |-> "America/Chicago"],
      [t |-> 172800, tz |-> "UTC"] }

CurrentInstants ==
    { [t |-> 86400,  tz |-> "UTC"],
      [t |-> 172800, tz |-> "America/Denver"],
      [t |-> 259200, tz |-> "UTC"] }

\* the wall clock when the program starts, and how often it may advance by
\* 100 seconds while the program runs
FirstNow == [t |-> 345600, tz |-> "UTC"]

MaxTicks == 1

\* datetime.now(pytz.UTC)
datetime_now(clock) == [t |-> clock, tz |-> "UTC"]

\* mutant: the wall-clock readings are subtracted, the zone offsets dropped
total_seconds_naive(a, b) ==
    LET utcoffset == [ UTC |-> 0 ] @@ ("America/Chicago" :> -21600) @@ ("America/Denver" :> -25200)
    IN  IntToFloat[(a.t + utcoffset[a.tz]) - (b.t + utcoffset[b.tz])]

\* mutant: an interval that would be negative is reported as zero
total_seconds_Clamped(a, b) ==
    IF a.t < b.t THEN Zero ELSE IntToFloat[a.t - b.t]

\* (a - b).total_seconds() for aware datetimes a and b
total_seconds(a, b) == IntToFloat[a.t - b.t]

\* mutant: a year of 365 days, 31536000 seconds
SECONDS_PER_YEAR_Common == fl[31536, 3]

\* 365.25 * 24 * 3600, which is exactly 31557600.0
SECONDS_PER_YEAR == fl[315576, 2]

\* mutant: the astronomical unit rounded to 150 million km
KM_PER_AU_Rounded == F(1500, 5)

KM_PER_AU == fl[1495978707, -1]     \* 149597870.7

KM_PER_LY == F(9461, 9)             \* 9.461e12

\* mutant: the default is a naive local time, datetime.now()
current_datetime_or_now_Naive(current_datetime, clock) ==
    IF current_datetime = None
    THEN [t |-> clock, tz |-> "local"]
    ELSE current_datetime

\* __init__: "Current time defaults to now"
current_datetime_or_now(current_datetime, clock) ==
    IF current_datetime = None
    THEN datetime_now(clock)
    ELSE current_datetime

\* mutant: the default takes the coordinates and leaves the label out
current_location_or_birth_NoLabel(current_location, birth_location) ==
    IF current_location = None
    THEN <<birth_location[1], birth_location[2], "Unknown">>
    ELSE <<current_location[1], current_location[2], current_location[3]>>

\* __init__: "Current location defaults to birth location"; the result is
\* (current_latitude, current_longitude, current_address)
current_location_or_birth(current_location, birth_location) ==
    IF current_location = None
    THEN <<birth_location[1], birth_location[2], birth_location[3]>>
    ELSE <<current_location[1], current_location[2], current_location[3]>>

\* SpaceTimePosition.__init__, with the wall clock reading `clock`
SpaceTimePosition_init(birth_datetime, birth_location, current_datetime, current_location, clock) ==
    LET Fields(cur_dt, cur_loc, age_seconds) ==
            [ birth_datetime    |-> birth_datetime,
              birth_latitude    |-> birth_location[1],
              birth_longitude   |-> birth_location[2],
              birth_address     |-> birth_location[3],
              current_datetime  |-> cur_dt,
              current_latitude  |-> cur_loc[1],
              current_longitude |-> cur_loc[2],
              current_address   |-> cur_loc[3],
              age_seconds       |-> age_seconds,
              age_years         |-> FDiv[age_seconds, SECONDS_PER_YEAR],
              calculator        |-> NewCalculator ]
        Age(cur_dt, cur_loc) ==
            Fields(cur_dt, cur_loc, total_seconds(cur_dt, birth_datetime))
    IN  Age(current_datetime_or_now(current_datetime, clock),
            current_location_or_birth(current_location, birth_location))

calculate_birth_position(self) ==
    LET birth_time == self.birth_datetime.t
        velocities == calculate_total_velocity(self.birth_latitude, self.birth_longitude, birth_time)
    IN  [ time         |-> self.birth_datetime,
          location     |-> [ latitude  |-> self.birth_latitude,
                             longitude |-> self.birth_longitude,
                             address   |-> self.birth_address ],
          velocities   |-> velocities,
          astropy_time |-> birth_time ]

calculate_current_position(self) ==
    LET current_time == self.current_datetime.t
        velocities   == calculate_total_velocity(self.current_latitude, self.current_longitude, current_time)
    IN  [ time         |-> self.current_datetime,
          location     |-> [ latitude  |-> self.current_latitude,
                             longitude |-> self.current_longitude,
                             address   |-> self.current_address ],
          velocities   |-> velocities,
          astropy_time |-> current_time ]

\* mutant: the displacement is extrapolated with the current velocities
DisplacementVelocities_Current(birth_data, current_data) == current_data.velocities

\* the velocities calculate_displacement extrapolates with
DisplacementVelocities(birth_data, current_data) == birth_data.velocities

calculate_displacement(self) ==
    LET Return(birth_data, current_data, displacement, displacement_magnitude_km) ==
            [ displacement_vector_km    |-> displacement,
              displacement_magnitude_km |-> displacement_magnitude_km,
              displacement_magnitude_au |-> FDiv[displacement_magnitude_km, KM_PER_AU],
              displacement_magnitude_ly |-> FDiv[displacement_magnitude_km, KM_PER_LY],
              time_elapsed_seconds      |-> self.age_seconds,
              time_elapsed_years        |-> self.age_years,
              birth_data                |-> birth_data,
              current_data              |-> current_data ]
        Magnitude(birth_data, current_data, displacement) ==
            Return(birth_data, current_data, displacement, Norm[displacement])
        Displace(birth_data, current_data) ==
            Magnitude(birth_data, current_data,
                      calculate_position_change(
                          DisplacementVelocities(birth_data, current_data),
                          self.age_seconds))
    IN  Displace(calculate_birth_position(self), calculate_current_position(self))

\* ------------------------------------------------------------------------
\* generate_spacecraft_comparisons (app.py), format_position_vector
\* (cosmic_calculator.py) and SpaceTimePosition.generate_report

\* a >= b
FGe(a, b) == ~ FLess(a, b)

One == F(1000, -3)

DAYS_PER_YEAR == fl[36525, -2]          \* 365.25

\* mutant: the catalog without its slowest entry
SpacecraftCatalog_Four ==
    << [name |-> "Parker Solar Probe", speed_kms |-> F(1630, -1), speed_kmh |-> 586800,
        year |-> 2021, record |-> "Fastest human-made object ever"],
       [name |-> "Juno",               speed_kms |-> F(7361, -2), speed_kmh |-> 265000,
        year |-> 2016, record |-> "Fastest Jupiter mission"],
       [name |-> "Helios 2",           speed_kms |-> F(7022, -2), speed_kmh |-> 252792,
        year |-> 1976, record |-> "Held speed record for 45 years"],
       [name |-> "Helios 1",           speed_kms |-> F(6875, -2), speed_kmh |-> 247500,
        year |-> 1975, record |-> "First to exceed 240,000 km/h"] >>

\* the list `spacecraft` of generate_spacecraft_comparisons
SpacecraftCatalog ==
    << [name |-> "Parker Solar Probe", speed_kms |-> F(1630, -1), speed_kmh |-> 586800,
        year |-> 2021, record |-> "Fastest human-made object ever"],
       [name |-> "Juno",               speed_kms |-> F(7361, -2), speed_kmh |-> 265000,
        year |-> 2016, record |-> "Fastest Jupiter mission"],
       [name |-> "Helios 2",           speed_kms |-> F(7022, -2), speed_kmh |-> 252792,
        year |-> 1976, record |-> "Held speed record for 45 years"],
       [name |-> "Helios 1",           speed_kms |-> F(6875, -2), speed_kmh |-> 247500,
        year |-> 1975, record |-> "First to exceed 240,000 km/h"],
       [name |-> "New Horizons",       speed_kms |-> F(5854, -2), speed_kmh |-> 210744,
        year |-> 2015, record |-> "Fastest Earth departure velocity"] >>

\* one pass of the loop of generate_spacecraft_comparisons
comparison_entry(craft, distance_km) ==
    LET Entry(travel_time_seconds, travel_time_years) ==
            [ name                |-> craft.name,
              speed_kms           |-> craft.speed_kms,
              speed_kmh           |-> craft.speed_kmh,
              year                |-> craft.year,
              record              |-> craft.record,
              travel_time_seconds |-> travel_time_seconds,
              travel_time_days    |-> FMul[travel_time_years, DAYS_PER_YEAR],
              travel_time_years   |-> travel_time_years ]
        Years(travel_time_seconds) ==
            Entry(travel_time_seconds, FDiv[travel_time_seconds, SECONDS_PER_YEAR])
    IN  Years(FDiv[distance_km, craft.speed_kms])

generate_spacecraft_comparisons(distance_km) ==
    [ i \in 1..Len(SpacecraftCatalog) |-> comparison_entry(SpacecraftCatalog[i], distance_km) ]

\* the numbers format_position_vector prints, and which of them it prints
format_position_vector(position_vector) ==
    LET Line(mag) ==
            [ mag_km   |-> mag,
              mag_au   |-> FDiv[mag, KM_PER_AU],
              mag_ly   |-> FDiv[mag, KM_PER_LY],
              shows_au |-> FLess(F(1000, -5), FDiv[mag, KM_PER_AU]),
              shows_ly |-> FLess(F(1000, -5), FDiv[mag, KM_PER_LY]) ]
    IN  Line(Norm[position_vector])

\* the list `spacecraft` of generate_report, as written
ReportSpacecraft ==
    << [name |-> "Parker Solar Probe", speed_kms |-> F(1630, -1), speed_kmh |-> 586800,
        year |-> 2021, record |-> "Fastest human-made object ever"],
       [name |-> "Helios 2",           speed_kms |-> F(7022, -2), speed_kmh |-> 252792,
        year |-> 1976, record |-> "Held speed record for 45 years"],
       [name |-> "Helios 1",           speed_kms |-> F(6875, -2), speed_kmh |-> 247500,
        year |-> 1975, record |-> "First to exceed 240,000 km/h"],
       [name |-> "Juno",               speed_kms |-> F(7361, -2), speed_kmh |-> 265000,
        year |-> 2016, record |-> "Fastest Jupiter mission"],
       [name |-> "New Horizons",       speed_kms |-> F(5854, -2), speed_kmh |-> 210744,
        year |-> 2015, record |-> "Fastest Earth departure velocity"] >>

\* craft put into a list already sorted by descending speed, after every
\* entry that is not slower (the sort is stable)
RECURSIVE InsertBySpeed(_, _)
InsertBySpeed(craft, sorted) ==
    IF sorted = << >> THEN << craft >>
    ELSE IF FLess(Head(sorted).speed_kms, craft.speed_kms)
         THEN << craft >> \o sorted
         ELSE << Head(sorted) >> \o InsertBySpeed(craft, Tail(sorted))

\* spacecraft.sort(key=lambda x: x['speed_kms'], reverse=True)
RECURSIVE SortBySpeedDescending(_)
SortBySpeedDescending(crafts) ==
    IF crafts = << >> THEN << >>
    ELSE InsertBySpeed(crafts[Len(crafts)],
                       SortBySpeedDescending(SubSeq(crafts, 1, Len(crafts) - 1)))

\* one pass of the loop over spacecraft[:5] in generate_report
report_entry(craft, distance_km) ==
    LET Entry(travel_time_seconds, travel_time_minutes, travel_time_hours,
              travel_time_days, travel_time_years) ==
            [ name                |-> craft.name,
              speed_kms           |-> craft.speed_kms,
              speed_kmh           |-> craft.speed_kmh,
              year                |-> craft.year,
              record              |-> craft.record,
              travel_time_seconds |-> travel_time_seconds,
              travel_time_minutes |-> travel_time_minutes,
              travel_time_hours   |-> travel_time_hours,
              travel_time_days    |-> travel_time_days,
              travel_time_years   |-> travel_time_years,
              printed_in          |-> IF FGe(travel_time_years, One) THEN "years"
                                      ELSE IF FGe(travel_time_days, One) THEN "days"
                                      ELSE IF FGe(travel_time_hours, One) THEN "hours"
                                      ELSE "minutes" ]
        Years(s, m, h, d) == Entry(s, m, h, d, FDiv[d, DAYS_PER_YEAR])
        Days(s, m, h)     == Years(s, m, h, FDiv[h, F(2400, -2)])
        Hours(s, m)       == Days(s, m, FDiv[m, F(6000, -2)])
        Minutes(s)        == Hours(s, FDiv[s, F(6000, -2)])
    IN  Minutes(FDiv[distance_km, craft.speed_kms])

\* the numbers generate_report formats into its text
generate_report(self) ==
    LET Light(light_seconds, light_minutes, light_hours, light_days) ==
            [ light_seconds |-> light_seconds,
              light_minutes |-> light_minutes,
              light_hours   |-> light_hours,
              light_days    |-> light_days,
              printed_in    |-> IF FGe(light_days, One) THEN "days"
                                ELSE IF FGe(light_hours, One) THEN "hours"
                                ELSE IF FGe(light_minutes, One) THEN "minutes"
                                ELSE "seconds" ]
        LightDays(s, m, h) == Light(s, m, h, FDiv[h, F(2400, -2)])
        LightHours(s, m)   == LightDays(s, m, FDiv[m, F(6000, -2)])
        LightMinutes(s)    == LightHours(s, FDiv[s, F(6000, -2)])
        Sorted(spacecraft, distance_km) ==
            [ i \in 1..Len(SubSeq(spacecraft, 1, 5)) |-> report_entry(spacecraft[i], distance_km) ]
        Report(displacement_data, total_speed_kms, distance_km) ==
            [ birth_data        |-> displacement_data.birth_data,
              current_data      |-> displacement_data.current_data,
              age_years         |-> self.age_years,
              age_seconds       |-> self.age_seconds,
              displacement      |-> format_position_vector(displacement_data.displacement_vector_km),
              distance_km       |-> distance_km,
              distance_au       |-> displacement_data.displacement_magnitude_au,
              distance_ly       |-> displacement_data.displacement_magnitude_ly,
              total_speed_kms   |-> total_speed_kms,
              total_speed_kmh   |-> FMul[total_speed_kms, F(3600, 0)],
              total_speed_c     |-> FDiv[total_speed_kms, fl[299792458, -3]],
              moon_distances    |-> FDiv[distance_km, F(3844, 2)],
              sun_distances     |-> FDiv[distance_km, KM_PER_AU],
              light             |-> LightMinutes(FDiv[distance_km, fl[299792458, -3]]),
              spacecraft        |-> Sorted(SortBySpeedDescending(ReportSpacecraft), distance_km) ]
        Data(displacement_data) ==
            Report(displacement_data,
                   displacement_data.birth_data.velocities.total_magnitude,
                   displacement_data.displacement_magnitude_km)
    IN  Data(calculate_displacement(self))

\* ------------------------------------------------------------------------
\* normalize_timezone and parse_datetime_input (spacetime_position.py)
\*
\* A date or time string is the sequence of its parts between the separators
\* ('-' or ':'), each part either Num(n), a part int() reads as n, or Txt(s),
\* a part int() rejects: "1971-11-17" is <<Num(1971), Num(11), Num(17)>>, ""
\* is <<Txt("")>>.  Timezone names are strings.

Num(n) == [int |-> n]

Txt(s) == [text |-> s]

\* bool(s) for a date or time string s or None
Truthy(s) == ~ IsNone(s) /\ s # << Txt("") >>

\* tz_string.lower().strip() for the timezone strings requests carry; a string
\* that is not listed is its own lower-case, stripped form
LowerStripped ==
    ("UTC" :> "utc") @@
    ("Mountain" :> "mountain") @@
    ("MST" :> "mst") @@
    (" Central " :> "central") @@
    ("America/Denver" :> "america/denver") @@
    ("America/Chicago" :> "america/chicago") @@
    ("America/New_York" :> "america/new_york") @@
    ("Mars/Olympus" :> "mars/olympus") @@
    ("EASTERN" :> "eastern") @@
    (" Eastern " :> "eastern") @@
    ("EST" :> "est") @@
    (" Est " :> "est") @@
    ("EDT" :> "edt") @@
    (" Edt " :> "edt") @@
    ("ET" :> "et") @@
    (" Et " :> "et") @@
    ("CENTRAL" :> "central") @@
    ("CST" :> "cst") @@
    (" Cst " :> "cst") @@
    ("CDT" :> "cdt") @@
    (" Cdt " :> "cdt") @@
    ("CT" :> "ct") @@
    (" Ct " :> "ct") @@
    ("MOUNTAIN" :> "mountain") @@
    (" Mountain " :> "mountain") @@
    (" Mst " :> "mst") @@
    ("MDT" :> "mdt") @@
    (" Mdt " :> "mdt") @@
    ("MT" :> "mt") @@
    (" Mt " :> "mt") @@
    ("PACIFIC" :> "pacific") @@
    (" Pacific " :> "pacific") @@
    ("PST" :> "pst") @@
    (" Pst " :> "pst") @@
    ("PDT" :> "pdt") @@
    (" Pdt " :> "pdt") @@
    ("PT" :> "pt") @@
    (" Pt " :> "pt") @@
    ("ALASKA" :> "alaska") @@
    (" Alaska " :> "alaska") @@
    ("AKST" :> "akst") @@
    (" Akst " :> "akst") @@
    ("AKDT" :> "akdt") @@
    (" Akdt " :> "akdt") @@
    ("HAWAII" :> "hawaii") @@
    (" Hawaii " :> "hawaii") @@
    ("HST" :> "hst") @@
    (" Hst " :> "hst") @@
    ("GMT" :> "gmt") @@
    (" Gmt " :> "gmt") @@
    (" Utc " :> "utc") @@
    ("BST" :> "bst") @@
    (" Bst " :> "bst") @@
    ("CET" :> "cet") @@
    (" Cet " :> "cet") @@
    ("JST" :> "jst") @@
    (" Jst " :> "jst") @@
    ("AEST" :> "aest") @@
    (" Aest " :> "aest") @@
    ("America/Los_Angeles" :> "america/los_angeles") @@
    ("America/Anchorage" :> "america/anchorage") @@
    ("Pacific/Honolulu" :> "pacific/honolulu") @@
    ("Europe/London" :> "europe/london") @@
    ("Europe/Paris" :> "europe/paris") @@
    ("Asia/Tokyo" :> "asia/tokyo") @@
    ("Australia/Sydney" :> "australia/sydney") @@
    ("  " :> "") @@
    ("Europe/Berlin" :> "europe/berlin") @@
    (" Europe/Berlin " :> "europe/berlin") @@
    ("Zulu" :> "zulu")

lower_strip(tz_string) ==
    IF tz_string \in DOMAIN LowerStripped THEN LowerStripped[tz_string] ELSE tz_string

\* mutant: the names of GMT and UTC exchanged
tz_mappings_Crossed ==
    [ eastern |-> "America/New_York", est |-> "America/New_York",
      edt |-> "America/New_York", et |-> "America/New_York",
      central |-> "America/Chicago", cst |-> "America/Chicago",
      cdt |-> "America/Chicago", ct |-> "America/Chicago",
      mountain |-> "America/Denver", mst |-> "America/Denver",
      mdt |-> "America/Denver", mt |-> "America/Denver",
      pacific |-> "America/Los_Angeles", pst |-> "America/Los_Angeles",
      pdt |-> "America/Los_Angeles", pt |-> "America/Los_Angeles",
      alaska |-> "America/Anchorage", akst |-> "America/Anchorage",
      akdt |-> "America/Anchorage",
      hawaii |-> "Pacific/Honolulu", hst |-> "Pacific/Honolulu",
      gmt |-> "UTC", utc |-> "GMT", bst |-> "Europe/London",
      cet |-> "Europe/Paris", jst |-> "Asia/Tokyo", aest |-> "Australia/Sydney" ]

tz_mappings ==
    [ eastern |-> "America/New_York", est |-> "America/New_York",
      edt |-> "America/New_York", et |-> "America/New_York",
      central |-> "America/Chicago", cst |-> "America/Chicago",
      cdt |-> "America/Chicago", ct |-> "America/Chicago",
      mountain |-> "America/Denver", mst |-> "America/Denver",
      mdt |-> "America/Denver", mt |-> "America/Denver",
      pacific |-> "America/Los_Angeles", pst |-> "America/Los_Angeles",
      pdt |-> "America/Los_Angeles", pt |-> "America/Los_Angeles",
      alaska |-> "America/Anchorage", akst |-> "America/Anchorage",
      akdt |-> "America/Anchorage",
      hawaii |-> "Pacific/Honolulu", hst |-> "Pacific/Honolulu",
      gmt |-> "GMT", utc |-> "UTC", bst |-> "Europe/London",
      cet |-> "Europe/Paris", jst |-> "Asia/Tokyo", aest |-> "Australia/Sydney" ]

normalize_timezone(tz_string) ==
    LET tz_lower == lower_strip(tz_string)
    IN  IF tz_lower \in DOMAIN tz_mappings THEN tz_mappings[tz_lower] ELSE tz_string

\* the zones pytz.timezone knows, among the names the program is run on, with
\* the offset from UTC in seconds that tz.localize gives a date outside
\* daylight-saving time (all dates the program is run on are)
StandardOffset ==
    [ UTC |-> 0, GMT |-> 0 ] @@
    ("America/New_York" :> -18000) @@
    ("America/Chicago" :> -21600) @@
    ("America/Denver" :> -25200) @@
    ("America/Los_Angeles" :> -28800)

\* days from 1970-01-01 to the proleptic Gregorian date y-m-d
DaysFromCivil(y, m, d) ==
    LET yy  == IF m <= 2 THEN y - 1 ELSE y
        era == yy \div 400
        yoe == yy - era * 400
        mp  == IF m > 2 THEN m - 3 ELSE m + 9
        doy == (153 * mp + 2) \div 5 + d - 1
        doe == yoe * 365 + yoe \div 4 - yoe \div 100 + doy
    IN  era * 146097 + doe - 719468

DaysInMonth(y, m) ==
    IF m \in {4, 6, 9, 11} THEN 30
    ELSE IF m # 2 THEN 31
    ELSE IF y % 4 = 0 /\ (y % 100 # 0 \/ y % 400 = 0) THEN 29 ELSE 28

\* datetime(year, month, day, hour, minute, second) does not raise
ValidDateTime(year, month, day, hour, minute, second) ==
    /\ year \in 1..9999
    /\ month \in 1..12
    /\ day \in 1..DaysInMonth(year, month)
    /\ hour \in 0..23
    /\ minute \in 0..59
    /\ second \in 0..59

\* the parts of the time, "12:00:00" when no time is given; a part that is
\* missing is 0
TimeParts(time_str) ==
    IF Truthy(time_str)
    THEN [ i \in 1..3 |-> IF i = 1 \/ Len(time_str) >= i THEN time_str[i] ELSE Num(0) ]
    ELSE << Num(12), Num(0), Num(0) >>

\* parse_datetime_input: the timezone-aware datetime, or None where any step
\* of the try block raises
parse_datetime_input(date_str, time_str, timezone_str) ==
    IF IsNone(date_str) THEN None                                \* None.split
    ELSE IF Len(date_str) < 3 THEN None                          \* date_parts[2]
    ELSE IF \E i \in 1..3 : "int" \notin DOMAIN date_str[i] THEN None
    ELSE IF \E i \in 1..3 : "int" \notin DOMAIN TimeParts(time_str)[i] THEN None
    ELSE IF IsNone(timezone_str) THEN None                       \* None.lower
    ELSE IF normalize_timezone(timezone_str) \notin DOMAIN StandardOffset THEN None
    ELSE IF ~ ValidDateTime(date_str[1].int, date_str[2].int, date_str[3].int,
                            TimeParts(time_str)[1].int, TimeParts(time_str)[2].int,
                            TimeParts(time_str)[3].int) THEN None
    ELSE [ t  |-> DaysFromCivil(date_str[1].int, date_str[2].int, date_str[3].int) * 86400
                  + TimeParts(time_str)[1].int * 3600
                  + TimeParts(time_str)[2].int * 60
                  + TimeParts(time_str)[3].int
                  - StandardOffset[normalize_timezone(timezone_str)],
           tz |-> normalize_timezone(timezone_str) ]

\* ------------------------------------------------------------------------
\* POST /api/calculate (app.py)

\* data.get(key, default)
Get(data, key, default) == IF key \in DOMAIN data THEN data[key] ELSE default

\* what the handler leaves behind when it answers without a position
NoPosition(status, error) ==
    [ args              |-> None,
      position          |-> NoObject,
      displacement_data |-> NoResult,
      response          |-> [status |-> status, success |-> FALSE, error |-> error] ]

\* the 'velocities' section of the response: every entry but total_magnitude,
\* each with its own magnitude
response_velocities(velocities) ==
    [ key \in DOMAIN velocities \ {"total_magnitude"} |->
          [ x |-> velocities[key][1], y |-> velocities[key][2], z |-> velocities[key][3],
            magnitude |-> Norm[velocities[key]] ] ]

\* the dict `response` of the handler, built entry by entry; a key that
\* displacement_data lacks raises KeyError, which the handler answers with 500
format_response(displacement_data) ==
    IF "cosmic_separation" \notin DOMAIN displacement_data
    THEN [status |-> 500, success |-> FALSE, error |-> "'cosmic_separation'"]
    ELSE [ status  |-> 200,
           success |-> TRUE,
           birth   |-> [ datetime   |-> displacement_data.birth_data.time,
                         location   |-> displacement_data.birth_data.location,
                         velocities |-> response_velocities(displacement_data.birth_data.velocities) ],
           current |-> [ datetime   |-> displacement_data.current_data.time,
                         location   |-> displacement_data.current_data.location,
                         velocities |-> response_velocities(displacement_data.current_data.velocities) ],
           displacement |->
               [ vector_km            |-> displacement_data.displacement_vector_km,
                 magnitude_km         |-> displacement_data.displacement_magnitude_km,
                 magnitude_au         |-> displacement_data.displacement_magnitude_au,
                 magnitude_ly         |-> displacement_data.displacement_magnitude_ly,
                 time_elapsed_seconds |-> displacement_data.time_elapsed_seconds,
                 time_elapsed_years   |-> displacement_data.time_elapsed_years ],
           cosmic_separation |-> displacement_data.cosmic_separation,
           spacecraft_comparisons |->
               generate_spacecraft_comparisons(displacement_data.displacement_magnitude_km) ]

\* the handler calculate_position for the JSON body data, with the wall clock
\* at clock
calculate_position(data, clock) ==
    LET Respond(a, position, displacement_data) ==
            [ args              |-> a,
              position          |-> position,
              displacement_data |-> displacement_data,
              response          |-> format_response(displacement_data) ]
        Displace(a, position) == Respond(a, position, calculate_displacement(position))
        Position(a) ==
            Displace(a, SpaceTimePosition_init(a.birth_datetime, a.birth_location,
                                               a.current_datetime, a.current_location, clock))
        Locations(birth_dt, current_dt) ==
            IF "birth_latitude" \notin DOMAIN data THEN NoPosition(500, "'birth_latitude'")
            ELSE IF "birth_longitude" \notin DOMAIN data THEN NoPosition(500, "'birth_longitude'")
            ELSE IF "current_latitude" \in DOMAIN data /\ "current_longitude" \notin DOMAIN data
                 THEN NoPosition(500, "'current_longitude'")
            ELSE Position(
                    [ birth_datetime   |-> birth_dt,
                      birth_location   |-> << data.birth_latitude, data.birth_longitude,
                                              Get(data, "birth_address", "Unknown") >>,
                      current_datetime |-> current_dt,
                      current_location |->
                          IF "current_latitude" \in DOMAIN data
                          THEN << data.current_latitude, data.current_longitude,
                                  Get(data, "current_address", "Unknown") >>
                          ELSE None ])
        Current(birth_dt) ==
            IF birth_dt = None THEN NoPosition(400, "Invalid birth date/time")
            ELSE Locations(birth_dt,
                           IF Truthy(Get(data, "current_date", None))
                           THEN parse_datetime_input(data.current_date,
                                                     Get(data, "current_time", << Num(12), Num(0), Num(0) >>),
                                                     Get(data, "current_timezone", "UTC"))
                           ELSE None)
    IN  IF "birth_date" \notin DOMAIN data THEN NoPosition(500, "'birth_date'")
        ELSE Current(parse_datetime_input(data.birth_date,
                                          Get(data, "birth_time", << Num(12), Num(0), Num(0) >>),
                                          Get(data, "birth_timezone", "UTC")))

\* ------------------------------------------------------------------------
\* class LocationGeocoder (geocoding.py)

\* what the Nominatim service knows: location strings and what it resolves
\* them to; it answers None for any other string
Gazetteer ==
    ("Kansas City, MO, USA" :>
         <<391001, -945781, "Kansas City, Jackson County, Missouri, United States">>) @@
    ("Boulder, CO, USA" :>
         <<400150, -1052705, "Boulder, Boulder County, Colorado, United States">>) @@
    ("USA" :> <<397837, -1004459, "United States">>)

LocationStrings == DOMAIN Gazetteer \cup {"Atlantis"}

\* how one call of self.geocoder.geocode can end: with an answer, with
\* GeocoderTimedOut, with GeocoderServiceError or with another exception
CallOutcomes == {"answer", "timeout", "service_error", "error"}

\* retry_count=5
DefaultRetryCount == 5

NoLocation == <<None, None, None>>

\* mutant: the backoff doubles with every attempt
wait_time_Exponential(attempt) == 2 ^ (attempt + 1)

\* wait_time = 2 * (attempt + 1), in seconds
wait_time(attempt) == 2 * (attempt + 1)

\* the loop of geocode_location from attempt on, the service ending its calls
\* as outcomes tells; waits are the time.sleep calls made so far
RECURSIVE geocode_attempts(_, _, _, _, _)
geocode_attempts(location_string, retry_count, outcomes, attempt, waits) ==
    IF attempt >= retry_count
    THEN [calls |-> attempt, waits |-> waits, value |-> NoLocation]
    ELSE IF outcomes[attempt + 1] = "answer"
    THEN [ calls |-> attempt + 1,
           waits |-> waits,
           value |-> IF location_string \in DOMAIN Gazetteer
                     THEN Gazetteer[location_string]
                     ELSE NoLocation ]
    ELSE IF attempt < retry_count - 1
    THEN geocode_attempts(location_string, retry_count, outcomes, attempt + 1,
                          Append(waits, IF outcomes[attempt + 1] = "error"
                                        THEN 2
                                        ELSE wait_time(attempt)))
    ELSE [calls |-> attempt + 1, waits |-> waits, value |-> NoLocation]

\* mutant: the first failure is final
geocode_location_NoRetry(location_string, retry_count, outcomes) ==
    geocode_attempts(location_string, IF retry_count > 1 THEN 1 ELSE retry_count,
                     outcomes, 0, << >>)

\* geocode_location: the calls it made, the waits it made and what it returned
geocode_location(location_string, retry_count, outcomes) ==
    geocode_attempts(location_string, retry_count, outcomes, 0, << >>)

\* ", ".join(address_components) for the component lists of two and more
\* entries that callers' dictionaries give
CommaJoined ==
    (<< "80302", "USA" >> :> "80302, USA") @@
    (<< "CO", "USA" >> :> "CO, USA") @@
    (<< "CO", "80302" >> :> "CO, 80302") @@
    (<< "CO", "80302", "USA" >> :> "CO, 80302, USA") @@
    (<< "Boulder", "USA" >> :> "Boulder, USA") @@
    (<< "Boulder", "80302" >> :> "Boulder, 80302") @@
    (<< "Boulder", "80302", "USA" >> :> "Boulder, 80302, USA") @@
    (<< "Boulder", "CO" >> :> "Boulder, CO") @@
    (<< "Boulder", "CO", "USA" >> :> "Boulder, CO, USA") @@
    (<< "Boulder", "CO", "80302" >> :> "Boulder, CO, 80302") @@
    (<< "Boulder", "CO", "80302", "USA" >> :> "Boulder, CO, 80302, USA") @@
    (<< "Atlantis", "USA" >> :> "Atlantis, USA") @@
    (<< "Atlantis", "80302" >> :> "Atlantis, 80302") @@
    (<< "Atlantis", "80302", "USA" >> :> "Atlantis, 80302, USA") @@
    (<< "Atlantis", "CO" >> :> "Atlantis, CO") @@
    (<< "Atlantis", "CO", "USA" >> :> "Atlantis, CO, USA") @@
    (<< "Atlantis", "CO", "80302" >> :> "Atlantis, CO, 80302") @@
    (<< "Atlantis", "CO", "80302", "USA" >> :> "Atlantis, CO, 80302, USA")

\* ", ".join(address_components), for a list that is not empty
join(address_components) ==
    IF Len(address_components) = 1 THEN address_components[1]
    ELSE CommaJoined[address_components]

\* mutant: a key that is present counts, whatever it holds
provided_KeyOnly(location_dict, key) == key \in DOMAIN location_dict

\* 'key' in location_dict and location_dict['key']
provided(location_dict, key) ==
    key \in DOMAIN location_dict /\ location_dict[key] # ""

\* address_components, appended to in the order city, state, zip, country
RECURSIVE address_components_of(_, _)
address_components_of(location_dict, keys) ==
    IF keys = << >> THEN << >>
    ELSE (IF provided(location_dict, Head(keys))
          THEN << location_dict[Head(keys)] >>
          ELSE << >>) \o address_components_of(location_dict, Tail(keys))

\* geocode_with_fallback: the strategies it tried, each with the string it
\* passed to geocode_location and what that returned, and what it returned
\* itself; runs[k] tells how the service ends its calls during the k-th
\* strategy
geocode_with_fallback(location_dict, runs) ==
    LET Attempt(strategy, query, value) ==
            [strategy |-> strategy, query |-> query, value |-> value]
        Try(strategy, query, k) ==
            Attempt(strategy, query,
                    geocode_location(query, DefaultRetryCount, runs[k]).value)
        Country(tried) ==
            IF provided(location_dict, "country")
            THEN LET Result(a) ==
                         [ tried |-> Append(tried, a),
                           value |-> IF ~ IsNone(a.value[1]) THEN a.value ELSE NoLocation ]
                 IN  Result(Try("country", location_dict.country, 3))
            ELSE [tried |-> tried, value |-> NoLocation]
        Components(tried, address_components) ==
            IF address_components # << >>
            THEN LET Result(a) ==
                         IF ~ IsNone(a.value[1])
                         THEN [tried |-> Append(tried, a), value |-> a.value]
                         ELSE Country(Append(tried, a))
                 IN  Result(Try("components", join(address_components), 2))
            ELSE Country(tried)
        Rest(tried) ==
            Components(tried, address_components_of(location_dict,
                                                    << "city", "state", "zip", "country" >>))
    IN  IF provided(location_dict, "full")
        THEN LET Result(a) ==
                     IF ~ IsNone(a.value[1])
                     THEN [tried |-> << a >>, value |-> a.value]
                     ELSE Rest(<< a >>)
             IN  Result(Try("full", location_dict.full, 1))
        ELSE Rest(<< >>)

\* ------------------------------------------------------------------------
\* POST /api/geocode (app.py)

\* bool(s) for a location string s or None
TruthyString(s) == IF IsNone(s) THEN FALSE ELSE s # ""

\* what the handler answers after geocode_location returned g
geocode_answer(location_string, g) ==
    IF IsNone(g.value[1])
    THEN [ status |-> 404, success |-> FALSE,
           error |-> "Could not geocode location", location |-> location_string ]
    ELSE [ status |-> 200, success |-> TRUE,
           latitude |-> g.value[1], longitude |-> g.value[2], address |-> g.value[3] ]

\* mutant: the handler passes whatever it is given to the geocoder
geocode_Unchecked(data, outcomes) ==
    LET Located(location_string, g) ==
            [geocoded |-> g, response |-> geocode_answer(location_string, g)]
        Locate(location_string) ==
            Located(location_string,
                    geocode_location(location_string, DefaultRetryCount, outcomes))
    IN  IF IsNone(data)
        THEN [ geocoded |-> None,
               response |-> [ status |-> 500, success |-> FALSE,
                              error |-> "'NoneType' object has no attribute 'get'" ] ]
        ELSE Locate(Get(data, "location", ""))

\* the handler geocode for the JSON body data (None when the request carries
\* none), the service ending its calls as outcomes tells: whether and how the
\* geocoder was called, and the answer
geocode(data, outcomes) ==
    LET Located(location_string, g) ==
            [geocoded |-> g, response |-> geocode_answer(location_string, g)]
        Locate(location_string) ==
            IF ~ TruthyString(location_string)
            THEN [ geocoded |-> None,
                   response |-> [ status |-> 400, success |-> FALSE,
                                  error |-> "Location string is required" ] ]
            ELSE Located(location_string,
                         geocode_location(location_string, DefaultRetryCount, outcomes))
    IN  IF IsNone(data)
        THEN [ geocoded |-> None,
               response |-> [ status |-> 500, success |-> FALSE,
                              error |-> "'NoneType' object has no attribute 'get'" ] ]
        ELSE Locate(Get(data, "location", ""))

\* ------------------------------------------------------------------------
\* The program: callers construct SpaceTimePosition objects and ask each for
\* its displacement, while the wall clock advances.

\* the wall clock advances
Tick ==
    /\ now < FirstNow.t + 100 * MaxTicks
    /\ now' = now + 100
    /\ UNCHANGED <<obj, args, result, outerVars>>

\* the arguments callers construct a SpaceTimePosition with
Inputs ==
    [ birth_datetime   : BirthInstants,
      birth_location   : BirthLocations,
      current_datetime : CurrentInstants \cup {None},
      current_location : CurrentLocations \cup {None} ]

\* the arguments of two requests that are compared with each other
PairInputs ==
    [ birth_datetime   : BirthInstants,
      birth_location   : {NorthPole, KansasCity},
      current_datetime : CurrentInstants,
      current_location : {Boulder, NorthPole, None} ]

\* mutant: the constructor resolves the birth label through the geocoder
Construct_Geocoding(o, inputs) ==
    /\ obj[o] = NoObject
    /\ \E a \in inputs :
            /\ args' = [args EXCEPT ![o] = a]
            /\ obj' = [obj EXCEPT ![o] =
                          SpaceTimePosition_init(a.birth_datetime, a.birth_location,
                                                 a.current_datetime, a.current_location, now)]
            /\ geo' = [geo EXCEPT ![o] =
                          geocode_location(a.birth_location[3], DefaultRetryCount,
                                           [i \in 1..DefaultRetryCount |-> "answer"])]
    /\ UNCHANGED <<now, result, report, comparisons, request, response>>

\* position = SpaceTimePosition(birth_dt, birth_location, current_datetime=..., current_location=...)
Construct(o, inputs) ==
    /\ obj[o] = NoObject
    /\ \E a \in inputs :
            /\ args' = [args EXCEPT ![o] = a]
            /\ obj' = [obj EXCEPT ![o] =
                          SpaceTimePosition_init(a.birth_datetime, a.birth_location,
                                                 a.current_datetime, a.current_location, now)]
    /\ UNCHANGED <<now, result, outerVars>>

\* mutant: the arrays of a composite are shared with the composites returned
\* before, whose totals the new call resets
CalculateDisplacement_SharedArrays(o) ==
    /\ obj[o] # NoObject
    /\ result' = [ q \in DOMAIN result |->
                      IF q = o THEN calculate_displacement(obj[o])
                      ELSE IF result[q] = NoResult THEN NoResult
                      ELSE [result[q] EXCEPT !.birth_data.velocities.total = ZeroVec] ]
    /\ UNCHANGED <<now, obj, args, outerVars>>

\* mutant: a cache shared by all objects answers with the displacement that
\* was computed last, whichever object it was computed for
CalculateDisplacement_SharedCache(o) ==
    /\ obj[o] # NoObject
    /\ result' = [result EXCEPT ![o] =
                      IF \E q \in DOMAIN result \ {o} : result[q] # NoResult
                      THEN result[CHOOSE q \in DOMAIN result \ {o} : result[q] # NoResult]
                      ELSE calculate_displacement(obj[o])]
    /\ UNCHANGED <<now, obj, args, outerVars>>

\* mutant: an object whose current instant was defaulted reads the clock
\* again at every call
CalculateDisplacement_LiveClock(o) ==
    /\ obj[o] # NoObject
    /\ result' = [result EXCEPT ![o] =
                      calculate_displacement(
                          SpaceTimePosition_init(args[o].birth_datetime, args[o].birth_location,
                                                 args[o].current_datetime,
                                                 args[o].current_location, now))]
    /\ UNCHANGED <<now, obj, args, outerVars>>

\* displacement_data = position.calculate_displacement()
CalculateDisplacement(o) ==
    /\ obj[o] # NoObject
    /\ result' = [result EXCEPT ![o] = calculate_displacement(obj[o])]
    /\ UNCHANGED <<now, obj, args, outerVars>>

InitObjects(ids) ==
    /\ now = FirstNow.t
    /\ obj = [o \in ids |-> NoObject]
    /\ args = [o \in ids |-> None]
    /\ result = [o \in ids |-> NoResult]
    /\ report = [o \in ids |-> None]
    /\ comparisons = [o \in ids |-> None]
    /\ request = [o \in ids |-> None]
    /\ response = [o \in ids |-> None]
    /\ geo = [o \in ids |-> None]

\* one request: a single SpaceTimePosition
Init == InitObjects({"p"})

Next ==
    \/ Tick
    \/ \E o \in DOMAIN obj : Construct(o, Inputs)
    \/ \E o \in DOMAIN obj : CalculateDisplacement(o)

Spec == Init /\ [][Next]_vars

\* two requests, each with its own SpaceTimePosition
InitPair == InitObjects({"p", "q"})

NextPair ==
    \/ Tick
    \/ \E o \in DOMAIN obj : Construct(o, PairInputs)
    \/ \E o \in DOMAIN obj : CalculateDisplacement(o)

SpecPair == InitPair /\ [][NextPair]_vars

\* report = position.generate_report()
GenerateReport(o) ==
    /\ obj[o] # NoObject
    /\ report' = [report EXCEPT ![o] = generate_report(obj[o])]
    /\ UNCHANGED <<now, obj, args, result, comparisons, request, response, geo>>

\* generate_spacecraft_comparisons(displacement_data['displacement_magnitude_km'])
Compare(o) ==
    /\ result[o] # NoResult
    /\ comparisons' = [comparisons EXCEPT ![o] =
                          generate_spacecraft_comparisons(result[o].displacement_magnitude_km)]
    /\ UNCHANGED <<now, obj, args, result, report, request, response, geo>>

\* one SpaceTimePosition, its displacement, its report and the spacecraft
\* comparison of its displacement
NextReport ==
    \/ Tick
    \/ \E o \in DOMAIN obj : Construct(o, Inputs)
    \/ \E o \in DOMAIN obj : CalculateDisplacement(o)
    \/ \E o \in DOMAIN obj : GenerateReport(o)
    \/ \E o \in DOMAIN obj : Compare(o)

SpecReport == Init /\ [][NextReport]_vars

\* the JSON bodies clients post to /api/calculate: a birth date, time,
\* timezone and location, and optionally a current date, timezone and location
BirthDates ==
    { << Num(1971), Num(11), Num(17) >>,        \* "1971-11-17"
      << Num(1971), Num(13), Num(45) >>,        \* "1971-13-45"
      << Txt("yesterday") >> }                  \* "yesterday"

BirthTimezones ==
    { "birth_timezone" :> "Mountain", "birth_timezone" :> "Mars/Olympus", << >> }

BirthPlaces ==
    { [ birth_latitude |-> 391001, birth_longitude |-> -945781,
        birth_address |-> "Kansas City, MO, USA" ],
      [ birth_latitude |-> 391001 ] }

CurrentDates ==
    { << >>,                                                        \* no current_date
      "current_date" :> None,                                       \* null
      "current_date" :> << Txt("") >>,                              \* ""
      [ current_date |-> << Num(2025), Num(10), Num(9) >>, current_timezone |-> "UTC" ],
      [ current_date |-> << Num(2025), Num(10), Num(9) >>, current_timezone |-> "Mars/Olympus" ],
      "current_date" :> << Num(2025), Num(2), Num(30) >>,           \* "2025-02-30"
      "current_date" :> << Txt("next week") >> }

CurrentPlaces ==
    { << >>,
      [ current_latitude |-> 400150, current_longitude |-> -1052705,
        current_address |-> "Boulder, CO, USA" ],
      [ current_latitude |-> 400150 ] }

Requests ==
    { [ birth_date |-> d, birth_time |-> << Num(6), Num(0), Num(0) >> ] @@ z @@ b @@ c @@ l :
          d \in BirthDates, z \in BirthTimezones, b \in BirthPlaces,
          c \in CurrentDates, l \in CurrentPlaces }

\* POST /api/calculate: the handler runs from the request to its answer
PostCalculate(o) ==
    /\ request[o] = None
    /\ \E data \in Requests :
           LET Handled(h) ==
                   /\ request' = [request EXCEPT ![o] = data]
                   /\ args' = [args EXCEPT ![o] = h.args]
                   /\ obj' = [obj EXCEPT ![o] = h.position]
                   /\ result' = [result EXCEPT ![o] = h.displacement_data]
                   /\ response' = [response EXCEPT ![o] = h.response]
           IN  Handled(calculate_position(data, now))
    /\ UNCHANGED <<now, report, comparisons, geo>>

\* one request to /api/calculate
NextApp ==
    \/ Tick
    \/ \E o \in DOMAIN request : PostCalculate(o)

SpecApp == Init /\ [][NextApp]_vars

\* lat, lon, address = geocoder.geocode_location(location_string)
GeocodeLocation(o) ==
    /\ geo[o] = None
    /\ \E location_string \in LocationStrings,
          outcomes \in [1..DefaultRetryCount -> CallOutcomes] :
           geo' = [geo EXCEPT ![o] =
                       geocode_location(location_string, DefaultRetryCount, outcomes)]
    /\ UNCHANGED <<now, obj, args, result, report, comparisons, request, response>>

\* a caller that resolves a location string and computes a displacement
NextGeo ==
    \/ Tick
    \/ \E o \in DOMAIN obj : Construct(o, PairInputs)
    \/ \E o \in DOMAIN obj : CalculateDisplacement(o)
    \/ \E o \in DOMAIN geo : GeocodeLocation(o)

SpecGeo == Init /\ [][NextGeo]_vars

\* the JSON bodies clients post to /api/geocode that hold no location string:
\* no JSON at all, a body that names its location otherwise, a null location
BodiesWithoutLocation ==
    {None, "place" :> "Boulder, CO, USA", "location" :> None}

\* the bodies that hold a location string, which may be empty
BodiesWithLocation == {"location" :> s : s \in LocationStrings \cup {""}}

\* how the service ends the calls of one geocode_location
ServiceRuns == [1..DefaultRetryCount -> CallOutcomes]

\* the handler geocode runs from the request to its answer
HandleGeocode(o, data, outcomes) ==
    LET Handled(h) ==
            /\ request' = [request EXCEPT ![o] = [body |-> data, outcomes |-> outcomes]]
            /\ geo' = [geo EXCEPT ![o] = h.geocoded]
            /\ response' = [response EXCEPT ![o] = h.response]
    IN  Handled(geocode(data, outcomes))

\* POST /api/geocode
PostGeocode(o) ==
    /\ request[o] = None
    /\ \/ \E data \in BodiesWithoutLocation, outcomes \in ServiceRuns :
              HandleGeocode(o, data, outcomes)
       \/ \E data \in BodiesWithLocation, outcomes \in ServiceRuns :
              HandleGeocode(o, data, outcomes)
    /\ UNCHANGED <<now, obj, args, result, report, comparisons>>

\* requests to /api/geocode
NextGeocode ==
    \/ Tick
    \/ \E o \in DOMAIN request : PostGeocode(o)

SpecGeocode == Init /\ [][NextGeocode]_vars

\* the values of retry_count callers pass: none, one or several attempts, and
\* the default
RetryCounts == 0..DefaultRetryCount

\* geocoder.geocode_location(location_string, retry_count)
CallGeocodeLocation(o) ==
    /\ request[o] = None
    /\ \E location_string \in LocationStrings, retry_count \in RetryCounts :
           \E outcomes \in [1..retry_count -> CallOutcomes] :
               /\ request' = [request EXCEPT ![o] =
                                  [ location_string |-> location_string,
                                    retry_count     |-> retry_count,
                                    outcomes        |-> outcomes ]]
               /\ geo' = [geo EXCEPT ![o] =
                              geocode_location(location_string, retry_count, outcomes)]
    /\ UNCHANGED <<now, obj, args, result, report, comparisons, response>>

\* the dictionaries callers pass to geocode_with_fallback: each key absent,
\* empty or filled
LocationDicts ==
    { f @@ c @@ s @@ z @@ k :
        f \in { << >>, "full" :> "", "full" :> "Boulder, CO, USA", "full" :> "Atlantis" },
        c \in { << >>, "city" :> "", "city" :> "Boulder", "city" :> "Atlantis" },
        s \in { << >>, "state" :> "CO" },
        z \in { << >>, "zip" :> "80302" },
        k \in { << >>, "country" :> "", "country" :> "USA" } }

\* how the service ends its calls while one strategy is tried: it answers, it
\* times out every time, or it answers after one service error
FallbackRuns ==
    { [i \in 1..DefaultRetryCount |-> "answer"],
      [i \in 1..DefaultRetryCount |-> "timeout"],
      [i \in 1..DefaultRetryCount |-> IF i = 1 THEN "service_error" ELSE "answer"] }

\* geocoder.geocode_with_fallback(location_dict)
CallGeocodeWithFallback(o) ==
    /\ request[o] = None
    /\ \E location_dict \in LocationDicts, runs \in [1..3 -> FallbackRuns] :
           /\ request' = [request EXCEPT ![o] =
                              [location_dict |-> location_dict, runs |-> runs]]
           /\ geo' = [geo EXCEPT ![o] = geocode_with_fallback(location_dict, runs)]
    /\ UNCHANGED <<now, obj, args, result, report, comparisons, response>>

\* callers of the geocoder
NextGeocoder ==
    \/ Tick
    \/ \E o \in DOMAIN geo : CallGeocodeLocation(o)
    \/ \E o \in DOMAIN geo : CallGeocodeWithFallback(o)

SpecGeocoder == Init /\ [][NextGeocoder]_vars

\* the timezone strings callers pass: every abbreviation of tz_mappings as it
\* is, in capitals and capitalised between blanks, the full names, and
\* strings that are neither
TimezoneStrings ==
    { "UTC", "Mountain", "MST", " Central ",
      "America/Denver", "America/Chicago", "America/New_York", "Mars/Olympus",
      "eastern", "EASTERN", " Eastern ", "est",
      "EST", " Est ", "edt", "EDT",
      " Edt ", "et", "ET", " Et ",
      "central", "CENTRAL", "cst", "CST",
      " Cst ", "cdt", "CDT", " Cdt ",
      "ct", "CT", " Ct ", "mountain",
      "MOUNTAIN", " Mountain ", "mst", " Mst ",
      "mdt", "MDT", " Mdt ", "mt",
      "MT", " Mt ", "pacific", "PACIFIC",
      " Pacific ", "pst", "PST", " Pst ",
      "pdt", "PDT", " Pdt ", "pt",
      "PT", " Pt ", "alaska", "ALASKA",
      " Alaska ", "akst", "AKST", " Akst ",
      "akdt", "AKDT", " Akdt ", "hawaii",
      "HAWAII", " Hawaii ", "hst", "HST",
      " Hst ", "gmt", "GMT", " Gmt ",
      "utc", " Utc ", "bst", "BST",
      " Bst ", "cet", "CET", " Cet ",
      "jst", "JST", " Jst ", "aest",
      "AEST", " Aest ", "America/Los_Angeles", "America/Anchorage",
      "Pacific/Honolulu", "Europe/London", "Europe/Paris", "Asia/Tokyo",
      "Australia/Sydney", "", "  ", "e s t",
      "Europe/Berlin", " Europe/Berlin ", "est.", "Zulu" }

\* how often a caller feeds a result of normalize_timezone back into it
MaxApplications == 2

\* normalized_tz = normalize_timezone(timezone_str)
NormalizeTimezone(o) ==
    /\ request[o] = None
    /\ \E tz_string \in TimezoneStrings :
           /\ request' = [request EXCEPT ![o] = [tz_string |-> tz_string]]
           /\ response' = [response EXCEPT ![o] = << normalize_timezone(tz_string) >>]
    /\ UNCHANGED <<now, obj, args, result, report, comparisons, geo>>

\* normalize_timezone applied to what it returned
NormalizeAgain(o) ==
    /\ "tz_string" \in DOMAIN request[o]
    /\ Len(response[o]) < MaxApplications
    /\ response' = [response EXCEPT ![o] =
                        Append(@, normalize_timezone(@[Len(@)]))]
    /\ UNCHANGED <<now, obj, args, result, report, comparisons, geo, request>>

\* callers of normalize_timezone
NextTimezone ==
    \/ Tick
    \/ \E o \in DOMAIN request : NormalizeTimezone(o)
    \/ \E o \in DOMAIN request : NormalizeAgain(o)

SpecTimezone == Init /\ [][NextTimezone]_vars

\* ------------------------------------------------------------------------
\* Properties.
\*
\* Equalities that floating point keeps exactly are stated exactly.  Where a
\* magnitude is compared with the real number it stands for, the two are
\* required to agree to within a stated number of units in the last place
\* (ulps) of the expected value.

Done(o) == result[o] # NoResult

\* the two calls of calculate_total_velocity a displacement result reports:
\* its arguments and what it returned
Calls(o) ==
    { [ latitude   |-> result[o].birth_data.location.latitude,
        longitude  |-> result[o].birth_data.location.longitude,
        velocities |-> result[o].birth_data.velocities ],
      [ latitude   |-> result[o].current_data.location.latitude,
        longitude  |-> result[o].current_data.location.longitude,
        velocities |-> result[o].current_data.velocities ] }

NineNames ==
    { "earth_rotation", "earth_orbit", "solar_system_lsr", "galactic_rotation",
      "galactic_oscillation", "local_group", "virgo_motion", "great_attractor",
      "cmb_frame" }

\* |a - b| is at most n units in the last place of b
WithinUlps(a, b, n) == ~ FLess(fl[n, b.e], FAbs(FAdd[a, FNeg(b)]))

\* q is the float nearest to the square root of s
IsRoundedSqrt(q, s) ==
    IF s.m = 0 THEN q = Zero
    ELSE /\ q.m > 0
         /\ s.m > 0
         /\ s.e - 2 * q.e \in 2..4
         /\ (2 * q.m - 1) * (2 * q.m - 1) <= 4 * s.m * P10(s.e - 2 * q.e)
         /\ 4 * s.m * P10(s.e - 2 * q.e) <= (2 * q.m + 1) * (2 * q.m + 1)

SumOfSquares(v) == FAdd[FAdd[FMul[v[1], v[1]], FMul[v[2], v[2]]], FMul[v[3], v[3]]]

\* the nine named vectors of v added up in the order they are named
SumOfNine(v) ==
    VecAdd[VecAdd[VecAdd[VecAdd[VecAdd[VecAdd[VecAdd[VecAdd[
        v.earth_rotation, v.earth_orbit], v.solar_system_lsr], v.galactic_rotation],
        v.galactic_oscillation], v.local_group], v.virgo_motion], v.great_attractor],
        v.cmb_frame]

\* C1: in every result of calculate_total_velocity, 'total' is the
\* element-wise sum of exactly the nine named vectors (the entries 'total' and
\* 'total_magnitude' are no part of it) and 'total_magnitude' is the Euclidean
\* norm of 'total'.
C1_TotalIsSumOfNine ==
    \A o \in DOMAIN result : Done(o) =>
        \A c \in Calls(o) :
            /\ c.velocities.total = SumOfNine(c.velocities)
            /\ IsRoundedSqrt(c.velocities.total_magnitude, SumOfSquares(c.velocities.total))

\* a displacement result whose two composites have different totals
C1_Witness ==
    \E o \in DOMAIN result :
        /\ Done(o)
        /\ result[o].birth_data.velocities.total # result[o].current_data.velocities.total
        /\ result[o].birth_data.velocities.total_magnitude.m > 0

\* the speeds the fixed contributions are specified to have, in km/s
SpecifiedSpeed ==
    [ earth_orbit          |-> F(2978, -2),     \* 29.78
      solar_system_lsr     |-> F(2000, -2),     \* 20.0
      galactic_rotation    |-> F(2300, -1),     \* 230.0
      galactic_oscillation |-> F(7000, -3),     \* 7.0
      local_group          |-> F(1000, -1),     \* 100.0
      virgo_motion         |-> F(6000, -1),     \* 600.0
      great_attractor      |-> F(6000, -1),     \* 600.0
      cmb_frame            |-> F(3690, -1) ]    \* 369.0

\* C2: every result of calculate_total_velocity has all nine named
\* contributions, and each of the eight fixed ones has its specified speed
\* (the norm of the vector, to within one ulp).
C2_AllNineWithSpecifiedSpeeds ==
    \A o \in DOMAIN result : Done(o) =>
        \A c \in Calls(o) :
            /\ NineNames \subseteq DOMAIN c.velocities
            /\ \A k \in DOMAIN SpecifiedSpeed :
                   WithinUlps(Norm[c.velocities[k]], SpecifiedSpeed[k], 1)

\* a result for an observer at a pole, where the Earth-rotation entry is
\* negligible and still present next to the eight fixed ones
C2_Witness ==
    \E o \in DOMAIN result :
        /\ Done(o)
        /\ result[o].birth_data.location.latitude = 900000
        /\ "earth_rotation" \in DOMAIN result[o].birth_data.velocities
        /\ Norm[result[o].birth_data.velocities.earth_rotation].e < -10
        /\ result[o].birth_data.velocities.cmb_frame[1].m < 0
        /\ result[o].birth_data.velocities.great_attractor[3].m < 0

\* C3: the Earth-rotation vector for latitude lat and longitude lon is
\* (-m sin(lon), m cos(lon), 0) with m = 0.465 cos(lat); its z component is 0
\* and its magnitude is 0.465 |cos(lat)| (to within two ulps) whatever the
\* longitude and the instant.
C3_EarthRotationVector ==
    \A o \in DOMAIN result : Done(o) =>
        \A c \in Calls(o) :
            LET m == FMul[F(4650, -4), Cos(c.latitude)]
            IN  /\ c.velocities.earth_rotation =
                       << FNeg(FMul[m, Sin(c.longitude)]), FMul[m, Cos(c.longitude)], Zero >>
                /\ c.velocities.earth_rotation[3] = Zero
                /\ WithinUlps(Norm[c.velocities.earth_rotation], FAbs(m), 2)

\* a result for an observer off the poles, moving in both x and y
C3_Witness ==
    \E o \in DOMAIN result :
        /\ Done(o)
        /\ result[o].birth_data.velocities.earth_rotation[1].m > 0
        /\ result[o].birth_data.velocities.earth_rotation[2].m < 0
        /\ result[o].birth_data.velocities.earth_rotation[1].e > -10

VecSub(u, v) == VecAdd[u, <<FNeg(v[1]), FNeg(v[2]), FNeg(v[3])>>]

EightNames == NineNames \ {"earth_rotation"}

\* C4 as stated: the eight other vectors of the two composites of a result
\* are identical and the two totals differ exactly by the difference of the
\* two Earth-rotation vectors.
C4_TotalsDifferExactly ==
    \A o \in DOMAIN result : Done(o) =>
        LET b == result[o].birth_data.velocities
            c == result[o].current_data.velocities
        IN  /\ \A k \in EightNames : b[k] = c[k]
            /\ VecSub(b.total, c.total) = VecSub(b.earth_rotation, c.earth_rotation)

\* C4, amended: the eight other vectors of the two composites are identical,
\* and each total is its own Earth-rotation vector plus those same eight
\* vectors, added in the same order (so equal Earth-rotation vectors give equal
\* totals); the difference of the totals is the difference of the
\* Earth-rotation vectors only up to the rounding of these sums.
C4_OnlyEarthRotationDependsOnLocation ==
    \A o \in DOMAIN result : Done(o) =>
        LET b == result[o].birth_data.velocities
            c == result[o].current_data.velocities
        IN  /\ \A k \in EightNames : b[k] = c[k]
            /\ c.total = SumOfNine([b EXCEPT !["earth_rotation"] = c.earth_rotation])
            /\ b.total = SumOfNine([c EXCEPT !["earth_rotation"] = b.earth_rotation])
            /\ (b.earth_rotation = c.earth_rotation => b.total = c.total)

\* a result for two different locations whose totals do not differ by the
\* difference of the Earth-rotation vectors
C4_Witness ==
    \E o \in DOMAIN result :
        /\ Done(o)
        /\ result[o].birth_data.location # result[o].current_data.location
        /\ result[o].birth_data.velocities.earth_rotation
               # result[o].current_data.velocities.earth_rotation
        /\ VecSub(result[o].birth_data.velocities.total, result[o].current_data.velocities.total)
               # VecSub(result[o].birth_data.velocities.earth_rotation,
                        result[o].current_data.velocities.earth_rotation)

\* C5 as stated: at latitude 90 or -90 degrees the Earth-rotation
\* contribution has magnitude zero.
C5_PolarRotationIsZero ==
    \A o \in DOMAIN result : Done(o) =>
        \A c \in Calls(o) :
            c.latitude \in {900000, -900000} => Norm[c.velocities.earth_rotation] = Zero

\* C5, amended: at latitude 90 or -90 degrees the Earth-rotation contribution
\* has a magnitude below 1e-16 km/s that is not zero (0.465 times the
\* cosine of the rounded pi/2).
C5_PolarRotationNegligible ==
    \A o \in DOMAIN result : Done(o) =>
        \A c \in Calls(o) :
            c.latitude \in {900000, -900000} =>
                /\ FLess(Zero, Norm[c.velocities.earth_rotation])
                /\ FLess(Norm[c.velocities.earth_rotation], F(1000, -19))

\* a result with the birth at the south pole and the current event at the
\* north pole
C5_Witness ==
    \E o \in DOMAIN result :
        /\ Done(o)
        /\ result[o].birth_data.location.latitude = -900000
        /\ result[o].current_data.location.latitude = 900000

\* C6: when the current instant is the birth instant, the elapsed seconds,
\* the displacement vector and its magnitudes in km, AU and light-years are
\* all zero, whatever the two locations.
C6_ZeroElapsed ==
    \A o \in DOMAIN result :
        (Done(o) /\ obj[o].current_datetime.t = obj[o].birth_datetime.t) =>
            /\ result[o].time_elapsed_seconds = Zero
            /\ result[o].displacement_vector_km = ZeroVec
            /\ result[o].displacement_magnitude_km = Zero
            /\ result[o].displacement_magnitude_au = Zero
            /\ result[o].displacement_magnitude_ly = Zero

\* a result for equal instants given in different zones, at different places
C6_Witness ==
    \E o \in DOMAIN result :
        /\ Done(o)
        /\ obj[o].current_datetime.t = obj[o].birth_datetime.t
        /\ obj[o].current_datetime.tz # obj[o].birth_datetime.tz
        /\ obj[o].current_latitude # obj[o].birth_latitude

VecNeg(v) == <<FNeg(v[1]), FNeg(v[2]), FNeg(v[3])>>

\* objects o and q were constructed for the same birth event
SameBirth(o, q) ==
    /\ obj[o].birth_datetime = obj[q].birth_datetime
    /\ obj[o].birth_latitude = obj[q].birth_latitude
    /\ obj[o].birth_longitude = obj[q].birth_longitude
    /\ obj[o].birth_address = obj[q].birth_address

\* C7: when the current instant precedes the birth instant by d seconds,
\* time_elapsed_seconds is -d, and the displacement vector is the exact
\* negation of the one obtained for the same birth event and an elapsed
\* interval of +d seconds.
C7_NegativeElapsedNegates ==
    \A o \in DOMAIN result :
        (Done(o) /\ obj[o].current_datetime.t < obj[o].birth_datetime.t) =>
            /\ result[o].time_elapsed_seconds =
                   FNeg(IntToFloat[obj[o].birth_datetime.t - obj[o].current_datetime.t])
            /\ result[o].time_elapsed_seconds.m < 0
            /\ \A q \in DOMAIN result :
                   ( /\ Done(q)
                     /\ SameBirth(o, q)
                     /\ obj[q].current_datetime.t - obj[q].birth_datetime.t
                            = obj[o].birth_datetime.t - obj[o].current_datetime.t ) =>
                       result[o].displacement_vector_km = VecNeg(result[q].displacement_vector_km)

\* two results for the same birth event, one a day before it and one a day
\* after it, with non-zero displacements
C7_Witness ==
    \E o, q \in DOMAIN result :
        /\ Done(o) /\ Done(q)
        /\ SameBirth(o, q)
        /\ obj[o].current_datetime.t < obj[o].birth_datetime.t
        /\ obj[q].current_datetime.t - obj[q].birth_datetime.t
               = obj[o].birth_datetime.t - obj[o].current_datetime.t
        /\ result[q].displacement_vector_km[1].m # 0
        /\ result[o].displacement_magnitude_km = result[q].displacement_magnitude_km

\* C8: the displacement vector is the birth event's total velocity times the
\* elapsed seconds; the current event's composite is returned in the result
\* and has no influence: two results that differ only in the current location
\* have the same displacement vector and magnitudes.
C8_DisplacementFromBirthVelocityOnly ==
    \A o \in DOMAIN result : Done(o) =>
        /\ result[o].displacement_vector_km =
               VecScale[result[o].birth_data.velocities.total, result[o].time_elapsed_seconds]
        /\ "total" \in DOMAIN result[o].current_data.velocities
        /\ \A q \in DOMAIN result :
               ( /\ Done(q)
                 /\ SameBirth(o, q)
                 /\ obj[o].current_datetime = obj[q].current_datetime ) =>
                   /\ result[o].displacement_vector_km = result[q].displacement_vector_km
                   /\ result[o].displacement_magnitude_km = result[q].displacement_magnitude_km
                   /\ result[o].displacement_magnitude_au = result[q].displacement_magnitude_au
                   /\ result[o].displacement_magnitude_ly = result[q].displacement_magnitude_ly

\* two results that differ only in the current location, whose current
\* totals differ, over a non-zero interval
C8_Witness ==
    \E o, q \in DOMAIN result :
        /\ Done(o) /\ Done(q)
        /\ SameBirth(o, q)
        /\ obj[o].current_datetime = obj[q].current_datetime
        /\ obj[o].age_seconds # Zero
        /\ result[o].current_data.location # result[q].current_data.location
        /\ result[o].current_data.velocities.total # result[q].current_data.velocities.total
        /\ result[o].current_data.velocities.total # result[o].birth_data.velocities.total

\* C9: when no current location is given, the current event's latitude,
\* longitude and label are the birth event's, and the displacement result
\* reports the birth location as the current location.
C9_CurrentLocationDefaultsToBirth ==
    \A o \in DOMAIN obj :
        (obj[o] # NoObject /\ args[o].current_location = None) =>
            /\ obj[o].current_latitude = args[o].birth_location[1]
            /\ obj[o].current_longitude = args[o].birth_location[2]
            /\ obj[o].current_address = args[o].birth_location[3]
            /\ obj[o].birth_latitude = args[o].birth_location[1]
            /\ obj[o].birth_longitude = args[o].birth_location[2]
            /\ obj[o].birth_address = args[o].birth_location[3]
            /\ Done(o) =>
                   /\ result[o].current_data.location = result[o].birth_data.location
                   /\ result[o].current_data.location =
                          [ latitude  |-> args[o].birth_location[1],
                            longitude |-> args[o].birth_location[2],
                            address   |-> args[o].birth_location[3] ]

\* a result for an object constructed without a current location
C9_Witness ==
    \E o \in DOMAIN obj :
        /\ obj[o] # NoObject
        /\ args[o].current_location = None
        /\ Done(o)
        /\ result[o].current_data.location.address = "Kansas City"

\* C10: a constructor call without a current instant takes the wall clock's
\* reading at the call, in UTC; a supplied current instant is stored unchanged.
C10_CurrentInstantDefaultsToNowUTC ==
    [][ \A o \in DOMAIN obj :
            (obj[o] = NoObject /\ obj'[o] # NoObject) =>
                IF args'[o].current_datetime = None
                THEN obj'[o].current_datetime = [t |-> now, tz |-> "UTC"]
                ELSE obj'[o].current_datetime = args'[o].current_datetime ]_vars

\* an object constructed without a current instant after the clock advanced
C10_Witness ==
    \E o \in DOMAIN obj :
        /\ obj[o] # NoObject
        /\ args[o].current_datetime = None
        /\ obj[o].current_datetime.t > FirstNow.t
        /\ obj[o].current_datetime.tz = "UTC"

\* C11: the displacement computation fails whenever the birth or the current
\* event has a latitude outside [-90, 90] or a longitude outside [-180, 180]:
\* no displacement result exists for such an object.
C11_InvalidLocationRejected ==
    \A o \in DOMAIN result : Done(o) =>
        /\ validate_coordinates(obj[o].birth_latitude, obj[o].birth_longitude)
        /\ validate_coordinates(obj[o].current_latitude, obj[o].current_longitude)

\* C12: a zero or negative elapsed interval is never rejected: an object
\* whose current instant is not after its birth instant exists, its
\* calculate_displacement can be called, and the result reports the signed
\* number of elapsed seconds, current minus birth, unchanged.
C12_NonPositiveElapsedAccepted ==
    \A o \in DOMAIN obj :
        (obj[o] # NoObject /\ obj[o].current_datetime.t <= obj[o].birth_datetime.t) =>
            /\ ENABLED CalculateDisplacement(o)
            /\ obj[o].age_seconds =
                   IntToFloat[obj[o].current_datetime.t - obj[o].birth_datetime.t]
            /\ obj[o].age_seconds.m <= 0
            /\ Done(o) =>
                   /\ result[o].time_elapsed_seconds = obj[o].age_seconds
                   /\ result[o].displacement_vector_km \in Vec

\* a result for a current instant one day before the birth instant
C12_Witness ==
    \E o \in DOMAIN obj :
        /\ Done(o)
        /\ obj[o].current_datetime.t < obj[o].birth_datetime.t
        /\ result[o].time_elapsed_seconds = F(-8640, 1)

\* C13: in every displacement result the AU magnitude is the km magnitude
\* divided by 149597870.7 and the light-year magnitude is the km magnitude
\* divided by 9.461e12 (one correctly rounded division each); multiplying
\* either back by its divisor recovers the km magnitude to within one ulp.
C13_UnitConversions ==
    \A o \in DOMAIN result : Done(o) =>
        LET km == result[o].displacement_magnitude_km
            au == result[o].displacement_magnitude_au
            ly == result[o].displacement_magnitude_ly
        IN  /\ au = FDiv[km, fl[1495978707, -1]]
            /\ ly = FDiv[km, F(9461, 9)]
            /\ WithinUlps(FMul[au, fl[1495978707, -1]], km, 1)
            /\ WithinUlps(FMul[ly, F(9461, 9)], km, 1)

\* a result with a non-zero displacement whose AU magnitude, multiplied back,
\* is not the km magnitude bit for bit
C13_Witness ==
    \E o \in DOMAIN result :
        /\ Done(o)
        /\ result[o].displacement_magnitude_km.m > 0
        /\ result[o].displacement_magnitude_au.m > 0
        /\ FMul[result[o].displacement_magnitude_au, fl[1495978707, -1]]
               # result[o].displacement_magnitude_km

\* C14: the reported age in years is the reported elapsed seconds divided by
\* 31557600 (one correctly rounded division), also for negative and zero
\* intervals: its sign is the sign of the elapsed seconds.
C14_AgeInYears ==
    \A o \in DOMAIN result : Done(o) =>
        /\ result[o].time_elapsed_years =
               FDiv[result[o].time_elapsed_seconds, fl[315576, 2]]
        /\ Sgn(result[o].time_elapsed_years.m) = Sgn(result[o].time_elapsed_seconds.m)
        /\ result[o].time_elapsed_years = obj[o].age_years

\* a result for a negative interval, with a negative age in years
C14_Witness ==
    \E o \in DOMAIN result :
        /\ Done(o)
        /\ result[o].time_elapsed_seconds.m < 0
        /\ result[o].time_elapsed_years.m < 0

\* the five spacecraft and their cruise speeds in km/s
FiveSpacecraft ==
    { <<"Parker Solar Probe", F(1630, -1)>>, <<"Juno", F(7361, -2)>>,
      <<"Helios 2", F(7022, -2)>>, <<"Helios 1", F(6875, -2)>>,
      <<"New Horizons", F(5854, -2)>> }

NamesAndSpeeds(entries) ==
    { <<entries[i].name, entries[i].speed_kms>> : i \in DOMAIN entries }

\* C15: for a displacement of D km the comparison has exactly five entries,
\* those of the fixed catalog, each with travel_time_seconds == D / S and
\* travel_time_years == travel_time_seconds / 31557600 (one correctly rounded
\* division each); travel_time_days, computed as travel_time_years * 365.25,
\* is travel_time_seconds / 86400 to within the rounding of the operations
\* and of the constants (three ulps at the model's precision); the report
\* uses the same five spacecraft and speeds.
C15_SpacecraftComparisons ==
    \A o \in DOMAIN comparisons :
        /\ comparisons[o] # None =>
               /\ Len(comparisons[o]) = 5
               /\ NamesAndSpeeds(comparisons[o]) = FiveSpacecraft
               /\ \A i \in DOMAIN comparisons[o] :
                      LET c == comparisons[o][i]
                      IN  /\ c.travel_time_seconds =
                                 FDiv[result[o].displacement_magnitude_km, c.speed_kms]
                          /\ c.travel_time_years = FDiv[c.travel_time_seconds, fl[315576, 2]]
                          /\ c.travel_time_days = FMul[c.travel_time_years, fl[36525, -2]]
                          /\ WithinUlps(c.travel_time_days,
                                        FDiv[c.travel_time_seconds, F(8640, 1)], 3)
        /\ report[o] # None =>
               /\ Len(report[o].spacecraft) = 5
               /\ NamesAndSpeeds(report[o].spacecraft) = FiveSpacecraft

\* comparisons and a report for a non-zero displacement, where some
\* travel_time_days is not the quotient travel_time_seconds / 86400
C15_Witness ==
    \E o \in DOMAIN comparisons :
        /\ comparisons[o] # None
        /\ report[o] # None
        /\ result[o].displacement_magnitude_km.m > 0
        /\ report[o].spacecraft[2].name = "Juno"
        /\ \E i \in DOMAIN comparisons[o] :
               /\ comparisons[o][i].travel_time_seconds.m > 0
               /\ comparisons[o][i].travel_time_days #
                      FDiv[comparisons[o][i].travel_time_seconds, F(8640, 1)]

\* the calls of calculate_total_velocity behind the result of o, with their
\* instants
TimedCalls(o) ==
    { [ latitude   |-> d.location.latitude,
        longitude  |-> d.location.longitude,
        time       |-> d.time,
        velocities |-> d.velocities ] : d \in {result[o].birth_data, result[o].current_data} }

AloneResult(o) ==
    calculate_displacement(
        SpaceTimePosition_init(args[o].birth_datetime, args[o].birth_location,
                               args[o].current_datetime, args[o].current_location,
                               obj[o].current_datetime.t))

MalformedBirth(data) ==
    /\ "birth_date" \in DOMAIN data
    /\ parse_datetime_input(data.birth_date,
                            Get(data, "birth_time", << Num(12), Num(0), Num(0) >>),
                            Get(data, "birth_timezone", "UTC")) = None

\* the request carries a current instant that cannot be constructed
MalformedCurrent(data) ==
    /\ Truthy(Get(data, "current_date", None))
    /\ parse_datetime_input(data.current_date,
                            Get(data, "current_time", << Num(12), Num(0), Num(0) >>),
                            Get(data, "current_timezone", "UTC")) = None

\* C18: a malformed or unconstructable instant, of the birth or of the
\* current event, is answered with an explicit failure, and no position is
\* computed with a default instant in its place.
C18_MalformedInstantSurfaced ==
    \A o \in DOMAIN response :
        (response[o] # None /\ (MalformedBirth(request[o]) \/ MalformedCurrent(request[o]))) =>
            /\ response[o].success = FALSE
            /\ obj[o] = NoObject
            /\ result[o] = NoResult

\* the end-to-end scenario: born in Kansas City on 1971-11-17 06:00 Mountain,
\* now 2025-10-09 12:00 UTC, 1700780400 seconds (53.89 years) later
Scenario(o) ==
    /\ Done(o)
    /\ obj[o].birth_latitude = 391001
    /\ obj[o].birth_longitude = -945781
    /\ obj[o].birth_datetime = [t |-> 59230800, tz |-> "America/Denver"]
    /\ obj[o].current_datetime = [t |-> 1760011200, tz |-> "UTC"]

Between(lo, x, hi) == FGe(x, lo) /\ FGe(hi, x)

C20_CoreNeverGeocodes ==
    [][ \A o \in DOMAIN obj :
            (obj'[o] # obj[o] \/ result'[o] # result[o]) =>
                /\ geo' = geo
                /\ obj'[o].birth_latitude = args'[o].birth_location[1]
                /\ obj'[o].birth_longitude = args'[o].birth_location[2]
                /\ obj'[o].birth_address = args'[o].birth_location[3] ]_vars

\* a displacement was computed, and the geocoder was used with a retry and a
\* wait, in the same run
C20_Witness ==
    \E o \in DOMAIN obj :
        /\ Done(o)
        /\ geo[o] # None
        /\ geo[o].calls > 1
        /\ Len(geo[o].waits) >= 1

\* the request is well-formed: a birth date that parses, a birth latitude and
\* longitude, and a current instant and place that are absent or complete
WellFormed(data) ==
    /\ "birth_date" \in DOMAIN data
    /\ ~ MalformedBirth(data)
    /\ "birth_latitude" \in DOMAIN data
    /\ "birth_longitude" \in DOMAIN data
    /\ ~ MalformedCurrent(data)
    /\ "current_latitude" \in DOMAIN data => "current_longitude" \in DOMAIN data

\* C21: a well-formed POST /api/calculate request is answered with success
\* true and the birth, current, displacement (vector_km, magnitude_km,
\* magnitude_au, magnitude_ly, time_elapsed_years) and spacecraft_comparisons
\* sections; it does not end in the error (500) branch.
C21_WellFormedSucceeds ==
    \A o \in DOMAIN request :
        (request[o] # None /\ WellFormed(request[o])) =>
            /\ response[o].status # 500
            /\ response[o].success
            /\ {"birth", "current", "displacement", "spacecraft_comparisons"}
                   \subseteq DOMAIN response[o]
            /\ {"vector_km", "magnitude_km", "magnitude_au", "magnitude_ly",
                "time_elapsed_years"} \subseteq DOMAIN response[o].displacement

\* the request to /api/geocode carries no location, or a null or empty one
NoLocationGiven(data) ==
    /\ ~ IsNone(data)
    /\ ~ TruthyString(Get(data, "location", ""))

\* C22: POST /api/geocode has exactly four outcomes: an empty or missing
\* location gives success false with status 400 and the geocoder is not
\* called; a geocoder result with no latitude gives success false with status
\* 404; a resolved location gives success true with its latitude, longitude
\* and address; a raised exception (here: a request without a JSON body)
\* gives success false with status 500.
C22_GeocodeOutcomes ==
    \A o \in DOMAIN request :
        request[o] # None =>
            LET data == request[o].body
                answer == response[o]
            IN  /\ answer.status \in {400, 404, 200, 500}
                /\ answer.success <=> answer.status = 200
                /\ answer.status = 500 <=> IsNone(data)
                /\ answer.status = 400 <=> NoLocationGiven(data)
                /\ answer.status \in {400, 500} => geo[o] = None
                /\ answer.status \in {404, 200} => geo[o] # None
                /\ answer.status = 404 => IsNone(geo[o].value[1])
                /\ answer.status = 200 =>
                       /\ ~ IsNone(geo[o].value[1])
                       /\ << answer.latitude, answer.longitude, answer.address >> = geo[o].value
                       /\ geo[o].value = Gazetteer[data.location]

\* a location was resolved at the third call of the service, after two
\* failures
C22_Witness ==
    \E o \in DOMAIN request :
        /\ request[o] # None
        /\ response[o].status = 200
        /\ response[o].latitude = 400150
        /\ geo[o].calls = 3

\* geocode_location was called and has returned
CalledGeocodeLocation(o) == "retry_count" \in DOMAIN request[o]

\* geocode_with_fallback was called and has returned
CalledGeocodeWithFallback(o) == "location_dict" \in DOMAIN request[o]

\* the calls of the service that end without raising, among the first n
AnswersWithin(outcomes, n) == {i \in 1..n : outcomes[i] = "answer"}

\* the least element of a non-empty set of numbers
Least(S) == CHOOSE i \in S : \A j \in S : i <= j

\* v is (None, None, None)
IsNoLocation(v) == IsNone(v[1]) /\ IsNone(v[2]) /\ IsNone(v[3])

\* v is what the service answers for a location string: its triple, or
\* nothing
IsResolved(v, location_string) ==
    IF location_string \in DOMAIN Gazetteer
    THEN ~ IsNoLocation(v) /\ v = Gazetteer[location_string]
    ELSE IsNoLocation(v)

\* C23: geocode_location returns a (latitude, longitude, address) triple or
\* (None, None, None); it calls the service at most retry_count times, returns
\* at the first call that does not raise with what that call answered, and
\* returns (None, None, None) after the retry_count-th consecutive failure
\* (timeout, service error or other exception).
C23_BoundedRetries ==
    \A o \in DOMAIN geo :
        CalledGeocodeLocation(o) =>
            LET call == request[o]
                answers == AnswersWithin(call.outcomes, call.retry_count)
            IN  /\ geo[o].calls <= call.retry_count
                /\ IsNoLocation(geo[o].value) \/ IsResolved(geo[o].value, call.location_string)
                /\ answers # {} =>
                       /\ geo[o].calls = Least(answers)
                       /\ IsResolved(geo[o].value, call.location_string)
                /\ answers = {} =>
                       /\ geo[o].calls = call.retry_count
                       /\ IsNoLocation(geo[o].value)

\* five calls that all failed, in each of the three ways
C23_Witness ==
    \E o \in DOMAIN geo :
        /\ CalledGeocodeLocation(o)
        /\ request[o].retry_count = DefaultRetryCount
        /\ request[o].outcomes =
               << "timeout", "service_error", "error", "timeout", "error" >>
        /\ geo[o].calls = DefaultRetryCount
        /\ IsNoLocation(geo[o].value)

\* a timeout or a service error, the failures that are retried with a backoff
BackedOff(outcome) == outcome \in {"timeout", "service_error"}

\* C24: in geocode_location the wait before the retry that follows the
\* attempt-th call, when that call timed out or met a service error, is
\* 2 * attempt seconds; a wait happens only when another attempt follows, so
\* there is one wait less than calls and none after the final failed attempt;
\* with the default retry_count of 5 the waits after timeouts or service
\* errors only are 2, 4, 6 and 8 seconds.
C24_RetryWaits ==
    \A o \in DOMAIN geo :
        CalledGeocodeLocation(o) =>
            LET call == request[o]
                waits == geo[o].waits
            IN  /\ geo[o].calls >= 1 => Len(waits) = geo[o].calls - 1
                /\ geo[o].calls = 0 => waits = << >>
                /\ \A i \in 1..Len(waits) :
                       BackedOff(call.outcomes[i]) => waits[i] = 2 * i
                /\ ( /\ call.retry_count = DefaultRetryCount
                     /\ \A i \in 1..DefaultRetryCount : BackedOff(call.outcomes[i]) )
                   => waits = << 2, 4, 6, 8 >>

\* five calls with the default retry_count that timed out or met a service
\* error in turn, with four waits between them
C24_Witness ==
    \E o \in DOMAIN geo :
        /\ CalledGeocodeLocation(o)
        /\ request[o].retry_count = DefaultRetryCount
        /\ request[o].outcomes =
               << "timeout", "service_error", "timeout", "service_error", "timeout" >>
        /\ geo[o].calls = 5
        /\ Len(geo[o].waits) = 4

\* the key is in the dictionary and holds a string that is not empty
Given(location_dict, key) == key \in DOMAIN location_dict /\ location_dict[key] # ""

\* the components the dictionary gives, in the order city, state, zip,
\* country
GivenComponents(location_dict) ==
    LET Part(key) == IF Given(location_dict, key) THEN << location_dict[key] >> ELSE << >>
    IN  Part("city") \o Part("state") \o Part("zip") \o Part("country")

\* the strategies that apply to a dictionary, in their fixed order, each with
\* the string it asks for
ApplicableStrategies(location_dict) ==
    (IF Given(location_dict, "full")
     THEN << [strategy |-> "full", query |-> location_dict.full] >> ELSE << >>)
    \o (IF GivenComponents(location_dict) # << >>
        THEN << [strategy |-> "components", query |-> join(GivenComponents(location_dict))] >>
        ELSE << >>)
    \o (IF Given(location_dict, "country")
        THEN << [strategy |-> "country", query |-> location_dict.country] >> ELSE << >>)

\* C25: geocode_with_fallback tries its strategies in a fixed order (the
\* 'full' string, then the comma-joined city/state/zip/country components,
\* then the country alone), skips a strategy whose inputs are missing or
\* empty, returns the result of the first strategy that resolves without
\* trying later ones, and returns (None, None, None) only when every
\* applicable strategy failed.
C25_FallbackOrder ==
    \A o \in DOMAIN geo :
        CalledGeocodeWithFallback(o) =>
            LET applicable == ApplicableStrategies(request[o].location_dict)
                tried == geo[o].tried
                n == Len(tried)
            IN  /\ n <= Len(applicable)
                /\ \A i \in 1..n :
                       /\ tried[i].strategy = applicable[i].strategy
                       /\ tried[i].query = applicable[i].query
                /\ \A i \in 1..(n - 1) : IsNoLocation(tried[i].value)
                /\ IF n > 0 /\ ~ IsNoLocation(tried[n].value)
                   THEN ~ IsNoLocation(geo[o].value) /\ geo[o].value = tried[n].value
                   ELSE /\ IsNoLocation(geo[o].value)
                        /\ n = Len(applicable)

\* a dictionary with a full string the service does not know, components it
\* resolves and a country: the second strategy answered and the third was
\* not tried
C25_Witness ==
    \E o \in DOMAIN geo :
        /\ CalledGeocodeWithFallback(o)
        /\ request[o].location_dict =
               [ full |-> "Atlantis", city |-> "Boulder", state |-> "CO", country |-> "USA" ]
        /\ Len(geo[o].tried) = 2
        /\ geo[o].tried[2].query = "Boulder, CO, USA"
        /\ ~ IsNoLocation(geo[o].value)
        /\ geo[o].value[1] = 400150

\* C26: normalize_timezone maps a known abbreviation to its full timezone
\* name ignoring case and surrounding whitespace ("EST", "est" and " Est "
\* all give "America/New_York"), returns any other string unchanged, and is
\* idempotent: applied to its own result it returns that result.
C26_NormalizeIdempotent ==
    \A o \in DOMAIN request :
        "tz_string" \in DOMAIN request[o] =>
            LET s == request[o].tz_string
                r == response[o]
            IN  /\ r[1] = IF lower_strip(s) \in DOMAIN tz_mappings
                          THEN tz_mappings[lower_strip(s)]
                          ELSE s
                /\ s \in {"EST", "est", " Est "} => r[1] = "America/New_York"
                /\ s \in {"GMT", "gmt", " Gmt "} => r[1] = "GMT"
                /\ s \in {" Europe/Berlin ", "est.", ""} => r[1] = s
                /\ \A i \in 1..Len(r) : r[i] = r[1]

\* an abbreviation written in capitals between blanks was normalized, and
\* the result normalized again
C26_Witness ==
    \E o \in DOMAIN request :
        /\ "tz_string" \in DOMAIN request[o]
        /\ request[o].tz_string = " Pacific "
        /\ response[o] = << "America/Los_Angeles", "America/Los_Angeles" >>

\* C27: no velocity contribution depends on the instant: any two calls of
\* calculate_total_velocity for the same latitude and longitude, at whatever
\* instants and in whatever computation, returned the same nine vectors, the
\* same total and the same total magnitude; the birth and current composites
\* of a result agree in every contribution but 'earth_rotation', and are
\* equal when the two locations are equal.
C27_NoInstantDependence ==
    \A o, q \in DOMAIN result : (Done(o) /\ Done(q)) =>
        /\ \A c \in TimedCalls(o), d \in TimedCalls(q) :
               (c.latitude = d.latitude /\ c.longitude = d.longitude) =>
                   c.velocities = d.velocities
        /\ \A name \in EightNames :
               result[o].birth_data.velocities[name] = result[q].current_data.velocities[name]
        /\ ( /\ obj[o].birth_latitude = obj[o].current_latitude
             /\ obj[o].birth_longitude = obj[o].current_longitude ) =>
               result[o].birth_data.velocities = result[o].current_data.velocities

\* a result whose current event is at the birth location two days after the
\* birth, next to a result of another object for the same location at yet
\* another instant
C27_Witness ==
    \E o, q \in DOMAIN result :
        /\ o # q
        /\ Done(o) /\ Done(q)
        /\ obj[o].birth_latitude = 391001
        /\ obj[o].current_latitude = 391001
        /\ obj[o].current_longitude = obj[o].birth_longitude
        /\ obj[o].current_datetime.t = obj[o].birth_datetime.t + 172800
        /\ obj[q].birth_latitude = 391001
        /\ obj[q].birth_datetime.t # obj[o].birth_datetime.t
        /\ result[o].birth_data.velocities.earth_rotation[1].m # 0

\* C28: the elapsed interval of a SpaceTimePosition is fixed at construction:
\* a call of calculate_displacement on an object that has a result already,
\* however far the clock has advanced and also when the current instant was
\* defaulted to the present moment, returns the same time_elapsed_seconds,
\* displacement vector and magnitudes, and no call changes the fields of the
\* object; the elapsed seconds are those between the two instants the object
\* has held since its construction.
C28_ElapsedFixedAtConstruction ==
    /\ [][ \A o \in DOMAIN obj :
               /\ obj[o] # NoObject => obj'[o] = obj[o]
               /\ Done(o) =>
                      /\ result'[o].time_elapsed_seconds = result[o].time_elapsed_seconds
                      /\ result'[o].time_elapsed_years = result[o].time_elapsed_years
                      /\ result'[o].displacement_vector_km = result[o].displacement_vector_km
                      /\ result'[o].displacement_magnitude_km = result[o].displacement_magnitude_km
                      /\ result'[o].displacement_magnitude_au = result[o].displacement_magnitude_au
                      /\ result'[o].displacement_magnitude_ly = result[o].displacement_magnitude_ly ]_vars
    /\ [](\A o \in DOMAIN obj : Done(o) =>
              /\ result[o].time_elapsed_seconds =
                     IntToFloat[obj[o].current_datetime.t - obj[o].birth_datetime.t]
              /\ result[o] = calculate_displacement(obj[o]))

\* an object whose current instant was defaulted has a result, and the clock
\* has advanced since its construction
C28_Witness ==
    \E o \in DOMAIN obj :
        /\ Done(o)
        /\ args[o].current_datetime = None
        /\ obj[o].current_datetime.t < now
        /\ result[o].displacement_magnitude_km.m > 0

\* C29: in every displacement result displacement_magnitude_km is
\* |time_elapsed_seconds| times the birth total_magnitude (the norm of the
\* scaled vector and the scaled norm agree to within four ulps), and the
\* magnitudes in km, AU and light-years are never negative, also when the
\* elapsed interval is negative.
C29_MagnitudeIsSpeedTimesInterval ==
    \A o \in DOMAIN result : Done(o) =>
        /\ WithinUlps(result[o].displacement_magnitude_km,
                      FMul[FAbs(result[o].time_elapsed_seconds),
                           result[o].birth_data.velocities.total_magnitude],
                      4)
        /\ result[o].displacement_magnitude_km.m >= 0
        /\ result[o].displacement_magnitude_au.m >= 0
        /\ result[o].displacement_magnitude_ly.m >= 0
        /\ result[o].time_elapsed_seconds.m # 0 =>
               result[o].displacement_magnitude_km.m > 0

\* a result over a negative interval with positive magnitudes
C29_Witness ==
    \E o \in DOMAIN result :
        /\ Done(o)
        /\ result[o].time_elapsed_seconds.m < 0
        /\ result[o].displacement_magnitude_km.m > 0
        /\ result[o].displacement_magnitude_ly.m > 0

====
